---- MODULE Spec2Model ----
(***************************************************************************)
(* Model of the GitLab Copilot reviewer: the webhook trigger gate          *)
(* (shouldTriggerReview), the review run of the Lambda handler and of the  *)
(* CI job main, GitLabClient.postReview and parseReviewResponse.           *)
(*                                                                         *)
(* Seven specifications share the variables:                               *)
(*   GateSpec  one webhook payload drawn from a bounded set, gated once    *)
(*   ParseSpec one assistant response drawn from a bounded set, parsed     *)
(*   MRSpec    a sequence of webhook events GitLab emits for one MR        *)
(*   DeliverySpec  one webhook event delivered several times to an entry   *)
(*             point (Lambda handler or webhook receiver), up to the run   *)
(*   Spec      one review run (LiveSpec adds the scheduler's fairness)     *)
(*   PromptSpec  one diff file list handed to buildDiffPrompt              *)
(*   RunsSpec  several review runs on one host, interleaved                *)
(***************************************************************************)
EXTENDS Integers, Sequences, FiniteSets, TLC

VARIABLES
    \* ---- trigger gate / webhook events ----
    payload,         \* the webhook payload being gated (option)
    gateResult,      \* what shouldTriggerReview returned for it (option)
    mrReviewers,     \* the MR's current reviewer users, in list order
    mrDraft,         \* the MR's draft flag
    lastEvent,       \* what the last event did to the MR
    evCount,         \* events delivered so far
    addedCount,      \* times the bot was added as reviewer
    triggeredCount,  \* times the gate returned true
    \* ---- response parser ----
    content,         \* the assistant's response text, as a sequence of tokens
    doc,             \* the JSON value that the text of the token DOC denotes
    parsed,          \* what parseReviewResponse returned for it (option)
    \* ---- webhook deliveries ----
    entry,           \* "lambda" (handler) or "server" (webhook receiver)
    httpRequest,     \* the event's request line: method and url
    webhookSecret,   \* config.gitlabWebhookSecret (option)
    xGitlabToken,    \* the event's X-Gitlab-Token header (option)
    rawBody,         \* the event's request body
    rpc,             \* each delivery's position in its handler
    verified,        \* each delivery's verifyWebhookToken result (option)
    gateOut,         \* each delivery's shouldTriggerReview result (option)
    response,        \* each delivery's HTTP response (option)
    work,            \* runs started and pipelines triggered, in order
    \* ---- one review run ----
    variant,         \* "lambda" (handler) or "ci" (main)
    pc,              \* the run's position
    serverVersions,  \* the MR's diff versions on the server, newest first
    versions,        \* the versions listed by getMergeRequestVersions (option)
    gets,            \* GET requests issued for the MR's versions, in order
    diffVersion,     \* the fetched MergeRequestDiffVersionDetail (option)
    reviewOpts,      \* the options reviewMergeRequest was called with (option)
    dir,             \* cloneRepository's temporary directory (option)
    clone,           \* the acquired CloneResult (option)
    created,         \* temporary directories made by mkdtemp
    fs,              \* temporary directories present on disk
    rmLog,           \* recursive removals attempted, in order, with their results
    cleanupCalls,    \* invocations of clone.cleanup
    gitErr,          \* the error git clone failed with (option)
    assistantCalls,  \* invocations of reviewMergeRequest
    review,          \* the parsed ReviewResult (option)
    idx,             \* postReview: index of the comment being processed
    posted,          \* postReview: counter
    failed,          \* postReview: counter
    requests,        \* POST requests issued to the MR, with their results
    err,             \* the error caught by the run's catch block (option)
    outcome,         \* what the run reports to its caller (option)
    \* ---- the prompt builder ----
    promptDiffs,     \* the DiffFile list handed to buildDiffPrompt
    prompt,          \* the prompt buildDiffPrompt returned for it (option)
    \* ---- concurrent runs on one host ----
    runPc,           \* each run's position
    runDir,          \* each run's cloneRepository directory (option)
    runClone,        \* each run's acquired CloneResult (option)
    disk,            \* for each temporary name, the run whose directory has it
    removals,        \* recursive removals attempted, with what they hit
    invocations      \* reviewMergeRequest invocations, with what they were given

gateVars == <<payload, gateResult>>
mrVars == <<mrReviewers, mrDraft, lastEvent, evCount, addedCount, triggeredCount>>
fetchVars == <<versions, gets, reviewOpts>>
runVars == <<variant, pc, serverVersions, fetchVars, diffVersion, dir, clone, created, fs, rmLog,
             cleanupCalls, gitErr, assistantCalls, review, idx, posted, failed,
             requests, err, outcome>>
parseVars == <<content, doc, parsed>>
reqVars == <<entry, httpRequest, webhookSecret, xGitlabToken, rawBody, rpc, verified, gateOut, response, work>>
promptVars == <<promptDiffs, prompt>>
poolVars == <<runPc, runDir, runClone, disk, removals, invocations>>
vars == <<gateVars, mrVars, parseVars, promptVars, poolVars, reqVars, runVars>>

\* ------------------------------------------------------------------------
\* Bounds
\* ------------------------------------------------------------------------
MaxReviewers == 2
MaxIds == 2
MaxEvents == 3
MaxComments == 2
MaxLen == 3
MaxElems == 2
MaxDeliveries == 2

\* ------------------------------------------------------------------------
\* Generic helpers
\* ------------------------------------------------------------------------
SeqsUpTo(S, n) == UNION {[1..k -> S] : k \in 0..n}

\* An optional value: <<>> is undefined/null, <<x>> is x.
Undefined == <<>>
Some(x) == <<x>>
Option(S) == {Undefined} \cup {Some(x) : x \in S}

\* Array.prototype.includes
includes(seq, x) == \E i \in DOMAIN seq : seq[i] = x

\* a ?? []
OrEmpty(opt) == IF opt = Undefined THEN <<>> ELSE opt[1]

Min(S) == CHOOSE m \in S : \A k \in S : m <= k

\* ------------------------------------------------------------------------
\* Webhook payloads
\* ------------------------------------------------------------------------
BotUsername == "copilot-reviewer"
Config == [gitlabBotUsername |-> BotUsername, gitlabToken |-> "glpat-secret"]

Alice == [id |-> 1, username |-> "alice"]
Bot == [id |-> 2, username |-> BotUsername]
Users == {Alice, Bot}
UserIds == {u.id : u \in Users}

Actions == {"update", "open", "close", "merge", "reopen", "undefined"}

ReviewerIdsRecords ==
    [previous : Option(SeqsUpTo(UserIds, MaxIds)),
     current : Option(SeqsUpTo(UserIds, MaxIds))]

ChangesRecords == [reviewer_ids : Option(ReviewerIdsRecords)]

Payloads ==
    [object_kind : {"merge_request", "push"},
     object_attributes : [action : Actions, draft : BOOLEAN, work_in_progress : BOOLEAN],
     reviewers : Option(SeqsUpTo(Users, MaxReviewers)),
     changes : Option(ChangesRecords)]

\* the first reviewer is taken, whatever its username (mutant)
findReviewer_First(reviewers, username) ==
    IF reviewers = Undefined \/ reviewers = Some(<<>>) THEN Undefined
    ELSE Some(reviewers[1][1])

\* payload.reviewers?.find((r) => r.username === username)
findReviewer(reviewers, username) ==
    IF reviewers = Undefined THEN Undefined
    ELSE LET list == reviewers[1]
             I == {i \in DOMAIN list : list[i].username = username}
         IN  IF I = {} THEN Undefined ELSE Some(list[Min(I)])

\* payload.changes?.reviewer_ids
reviewerIdsOf(changes) ==
    IF changes = Undefined THEN Undefined ELSE changes[1].reviewer_ids

\* the comparison without the "was already a reviewer" test (mutant)
newlyAdded_IgnorePrevious(reviewerChanges, botUser) ==
    IF reviewerChanges # Undefined
    THEN includes(OrEmpty(reviewerChanges[1].current), botUser.id)
    ELSE TRUE

\* The previous/current comparison of the reviewer_ids change record.
newlyAdded(reviewerChanges, botUser) ==
    IF reviewerChanges # Undefined
    THEN LET previousIds == OrEmpty(reviewerChanges[1].previous)
             currentIds == OrEmpty(reviewerChanges[1].current)
             wasAlreadyReviewer == includes(previousIds, botUser.id)
             isNowReviewer == includes(currentIds, botUser.id)
         IN  ~(wasAlreadyReviewer \/ ~isNowReviewer)
    ELSE TRUE

\* action !== "update", read as "open also qualifies" (mutant)
notUpdate_OpenToo(p) == p.object_attributes.action \notin {"update", "open"}

\* action !== "update"
notUpdate(p) == p.object_attributes.action # "update"

\* the draft test without the work_in_progress flag (mutant)
isDraft_NoWip(p) == p.object_attributes.draft

\* payload.object_attributes.draft || payload.object_attributes.work_in_progress
isDraft(p) == p.object_attributes.draft \/ p.object_attributes.work_in_progress

shouldTriggerReview(p, config) ==
    IF p.object_kind # "merge_request" THEN FALSE
    ELSE IF notUpdate(p) THEN FALSE
    ELSE IF isDraft(p) THEN FALSE
    ELSE LET botUser == findReviewer(p.reviewers, config.gitlabBotUsername)
         IN  IF botUser = Undefined THEN FALSE
             ELSE newlyAdded(reviewerIdsOf(p.changes), botUser[1])

\* ------------------------------------------------------------------------
\* Assistant responses: text and JSON values
\* ------------------------------------------------------------------------
\* A text is a sequence of tokens. FENCE is the three backquotes, NL a line
\* break (the only whitespace), "json" and "text" are words, and DOC is the
\* text of one JSON document, whose value is the variable doc.
FENCE == "<fence>"
NL == "\n"
DOC == "<json document>"
Alphabet == {FENCE, "json", "text", NL, DOC}
Texts == SeqsUpTo(Alphabet, MaxLen)

\* JavaScript values, tagged with their typeof / JSON kind.
JNull == [t |-> "null"]
JNum(n) == [t |-> "number", n |-> n]
JStr(s) == [t |-> "string", s |-> s]
JArr(items) == [t |-> "array", items |-> items]
JObj(f) == [t |-> "object", f |-> f]
Str(word) == JStr(<<word>>)

ElNull == JNull
ElNumber == JNum(5)
ElGood ==
    JObj([file |-> Str("a.ts"), line |-> JNum(3), body |-> Str("b1"),
          severity |-> Str("critical")])
ElOddSeverity ==
    JObj([file |-> Str("b.ts"), line |-> JNum(4), body |-> Str("b2"),
          severity |-> Str("blocker")])
ElBadLine ==
    JObj([file |-> Str("a.ts"), line |-> Str("not-a-number"), body |-> Str("b"),
          severity |-> Str("critical")])
ElemPool == {ElNull, ElNumber, ElGood, ElOddSeverity, ElBadLine}

CommentsFields ==
    {Str("x")} \cup {JArr(a) : a \in SeqsUpTo(ElemPool, MaxElems)}

JsonDocs ==
    {JNull, JNum(5), Str("s"), JArr(<<>>), JObj(<<>>)}
    \cup {JObj([comments |-> c]) : c \in CommentsFields}
    \cup {JObj([summary |-> sm]) : sm \in {Str("ok"), JNum(1)}}
    \cup {JObj([summary |-> sm, comments |-> c]) :
              sm \in {Str("ok"), JNum(1)}, c \in CommentsFields}

\* ------------------------------------------------------------------------
\* parseReviewResponse
\* ------------------------------------------------------------------------
RECURSIVE trimStart(_)
trimStart(s) == IF s # <<>> /\ Head(s) = NL THEN trimStart(Tail(s)) ELSE s

RECURSIVE trimEnd(_)
trimEnd(s) ==
    IF s # <<>> /\ s[Len(s)] = NL THEN trimEnd(SubSeq(s, 1, Len(s) - 1)) ELSE s

\* String.prototype.trim
trim(s) == trimEnd(trimStart(s))

startsWithFence(s) == s # <<>> /\ Head(s) = FENCE

dropIf(s, tok) == IF s # <<>> /\ Head(s) = tok THEN Tail(s) ELSE s

\* replace(/^FENCE(?:json)?\n?/, "") on a text that starts with the fence
stripOpen(s) == dropIf(dropIf(Tail(s), "json"), NL)

\* replace(/\n?FENCE$/, "")
stripClose(s) ==
    IF s # <<>> /\ s[Len(s)] = FENCE
    THEN LET a == SubSeq(s, 1, Len(s) - 1)
         IN  IF a # <<>> /\ a[Len(a)] = NL THEN SubSeq(a, 1, Len(a) - 1) ELSE a
    ELSE s

\* cleaned: the trimmed text, without its code fence when it starts with one
cleanedOf(c) ==
    LET t == trim(c)
    IN  IF startsWithFence(t) THEN stripClose(stripOpen(t)) ELSE t

RECURSIVE repeatDigits(_, _)
repeatDigits(n, k) == IF k = 1 THEN n ELSE 10 * repeatDigits(n, k - 1) + n

\* JSON.parse: Undefined stands for a SyntaxError. White space around the
\* document is accepted; any other text around it is not, except that the
\* digits of a number document written several times are one number.
JSONparse(s) ==
    LET t == trim(s)
    IN  IF t = <<DOC>> THEN Some(doc)
        ELSE IF /\ t # <<>>
                /\ \A i \in DOMAIN t : t[i] = DOC
                /\ doc.t = "number"
             THEN Some(JNum(repeatDigits(doc.n, Len(t))))
        ELSE Undefined

\* v.key for a non-null value: Undefined when there is no such property
prop(v, key) ==
    IF v.t = "object" /\ key \in DOMAIN v.f THEN Some(v.f[key]) ELSE Undefined

typeOf(opt) == IF opt = Undefined THEN "undefined" ELSE opt[1].t

\* the filter without the test of line (mutant)
keepComment_AnyLine(c) ==
    /\ typeOf(prop(c, "file")) = "string"
    /\ typeOf(prop(c, "body")) = "string"

\* typeof c.file === "string" && typeof c.line === "number" && typeof c.body === "string"
keepComment(c) ==
    /\ typeOf(prop(c, "file")) = "string"
    /\ typeOf(prop(c, "line")) = "number"
    /\ typeOf(prop(c, "body")) = "string"

Severities == {Str("info"), Str("warning"), Str("critical")}

\* the map callback, on a candidate the filter kept
normalise(c) ==
    [file |-> prop(c, "file")[1],
     line |-> IF prop(c, "line") = Undefined THEN [t |-> "undefined"] ELSE prop(c, "line")[1],
     body |-> prop(c, "body")[1],
     severity |-> IF prop(c, "severity") # Undefined /\ prop(c, "severity")[1] \in Severities
                  THEN prop(c, "severity")[1]
                  ELSE Str("info")]

\* the catch block: the response itself as the summary, no comment
fallbackResult(c) == [summary |-> JStr(c), comments |-> <<>>]

\* The try block on the decoded value; threw is TRUE where it throws:
\* a property read on null (the decoded value, or a candidate the filter
\* visits) and the missing string summary.
validated(v) ==
    IF v.t = "null" THEN [threw |-> TRUE]
    ELSE IF typeOf(prop(v, "summary")) # "string" THEN [threw |-> TRUE]
    ELSE LET field == prop(v, "comments")
             candidates == IF typeOf(field) = "array" THEN field[1].items ELSE <<>>
         IN  IF \E i \in DOMAIN candidates : candidates[i].t = "null"
             THEN [threw |-> TRUE]
             ELSE LET kept == SelectSeq(candidates, keepComment)
                  IN  [threw |-> FALSE,
                       result |-> [summary |-> prop(v, "summary")[1],
                                   comments |-> [i \in DOMAIN kept |-> normalise(kept[i])]]]

parseReviewResponse(c) ==
    LET decoded == JSONparse(cleanedOf(c))
    IN  IF decoded = Undefined THEN fallbackResult(c)
        ELSE IF validated(decoded[1]).threw THEN fallbackResult(c)
        ELSE validated(decoded[1]).result

\* ------------------------------------------------------------------------
\* Idle values of each group of variables
\* ------------------------------------------------------------------------
GateIdle ==
    /\ payload = Undefined
    /\ gateResult = Undefined

MRIdle ==
    /\ mrReviewers = <<>>
    /\ mrDraft = FALSE
    /\ lastEvent = Undefined
    /\ evCount = 0
    /\ addedCount = 0
    /\ triggeredCount = 0

ParseIdle ==
    /\ content = <<>>
    /\ doc = JNull
    /\ parsed = Undefined

PromptIdle ==
    /\ promptDiffs = <<>>
    /\ prompt = Undefined

PoolIdle ==
    /\ runPc = <<>>
    /\ runDir = <<>>
    /\ runClone = <<>>
    /\ disk = <<>>
    /\ removals = {}
    /\ invocations = {}

DeliveryIdle ==
    /\ entry = "lambda"
    /\ httpRequest = [method |-> "POST", url |-> "/"]
    /\ webhookSecret = Undefined
    /\ xGitlabToken = Undefined
    /\ rawBody = [shape |-> "absent", p |-> Undefined]
    /\ rpc = <<>>
    /\ verified = <<>>
    /\ gateOut = <<>>
    /\ response = <<>>
    /\ work = <<>>

RunIdle ==
    /\ variant = "lambda"
    /\ pc = "idle"
    /\ serverVersions = <<>>
    /\ versions = Undefined
    /\ gets = <<>>
    /\ reviewOpts = Undefined
    /\ diffVersion = Undefined
    /\ dir = Undefined
    /\ clone = Undefined
    /\ created = {}
    /\ fs = {}
    /\ rmLog = <<>>
    /\ cleanupCalls = 0
    /\ gitErr = Undefined
    /\ assistantCalls = 0
    /\ review = Undefined
    /\ idx = 0
    /\ posted = 0
    /\ failed = 0
    /\ requests = <<>>
    /\ err = Undefined
    /\ outcome = Undefined

\* ------------------------------------------------------------------------
\* GateSpec: the gate applied to one payload of the bounded payload set
\* ------------------------------------------------------------------------
GateInit ==
    /\ payload \in {Some(p) : p \in Payloads}
    /\ gateResult = Undefined
    /\ MRIdle
    /\ ParseIdle
    /\ PromptIdle
    /\ PoolIdle
    /\ DeliveryIdle
    /\ RunIdle

Gate ==
    /\ payload # Undefined
    /\ gateResult = Undefined
    /\ gateResult' = Some(shouldTriggerReview(payload[1], Config))
    /\ UNCHANGED <<payload, mrVars, parseVars, promptVars, poolVars, reqVars, runVars>>

GateNext == Gate

GateSpec == GateInit /\ [][GateNext]_vars

\* ------------------------------------------------------------------------
\* ParseSpec: the parser applied to one response of the bounded set
\* ------------------------------------------------------------------------
ParseInit ==
    /\ GateIdle
    /\ MRIdle
    /\ content \in Texts
    /\ doc \in JsonDocs
    /\ parsed = Undefined
    /\ PromptIdle
    /\ PoolIdle
    /\ DeliveryIdle
    /\ RunIdle

\* reviewMergeRequest hands the response's content to the parser
Parse ==
    /\ parsed = Undefined
    /\ parsed' = Some(parseReviewResponse(content))
    /\ UNCHANGED <<content, doc, gateVars, mrVars, promptVars, poolVars, reqVars, runVars>>

ParseNext == Parse

ParseSpec == ParseInit /\ [][ParseNext]_vars

\* ------------------------------------------------------------------------
\* MRSpec: the webhook events of one merge request, each one gated
\* ------------------------------------------------------------------------
ReviewerLists ==
    {s \in SeqsUpTo(Users, MaxReviewers) : \A i, j \in DOMAIN s : i # j => s[i] # s[j]}

idsOf(list) == [i \in DOMAIN list |-> list[i].id]

isReviewer(list, user) == includes(list, user)

\* The merge_request webhook payload of an event on the MR.
eventPayload(action, draft, reviewers, changes) ==
    [object_kind |-> "merge_request",
     object_attributes |-> [action |-> action, draft |-> draft, work_in_progress |-> draft],
     reviewers |-> Some(reviewers),
     changes |-> changes]

\* Deliver one event: the handler gates it, the MR moves to its new state.
Deliver(p, newReviewers, newDraft) ==
    LET result == shouldTriggerReview(p, Config)
        was == isReviewer(mrReviewers, Bot)
        now == isReviewer(newReviewers, Bot)
    IN  /\ evCount < MaxEvents
        /\ payload' = Some(p)
        /\ gateResult' = Some(result)
        /\ mrReviewers' = newReviewers
        /\ mrDraft' = newDraft
        /\ lastEvent' = Some([action |-> p.object_attributes.action,
                               wasReviewer |-> was,
                               isReviewer |-> now,
                               hasRecord |-> reviewerIdsOf(p.changes) # Undefined])
        /\ evCount' = evCount + 1
        /\ addedCount' = addedCount + (IF ~was /\ now THEN 1 ELSE 0)
        /\ triggeredCount' = triggeredCount + (IF result THEN 1 ELSE 0)
        /\ UNCHANGED <<parseVars, promptVars, poolVars, reqVars, runVars>>

\* The reviewer list is edited: an update whose changes carry reviewer_ids.
ReviewersChanged ==
    \E new \in ReviewerLists :
        /\ new # mrReviewers
        /\ Deliver(eventPayload("update", mrDraft, new,
                       Some([reviewer_ids |->
                                Some([previous |-> Some(idsOf(mrReviewers)),
                                      current |-> Some(idsOf(new))])])),
                   new, mrDraft)

\* Another field is edited (title, description, labels): an update whose
\* changes carry no reviewer_ids record, or carry an unchanged one.
FieldEdited ==
    \E changes \in {Undefined,
                     Some([reviewer_ids |-> Undefined]),
                     Some([reviewer_ids |->
                              Some([previous |-> Some(idsOf(mrReviewers)),
                                    current |-> Some(idsOf(mrReviewers))])])} :
        Deliver(eventPayload("update", mrDraft, mrReviewers, changes),
                mrReviewers, mrDraft)

\* The draft flag is toggled: an update whose changes carry no reviewer_ids.
DraftToggled ==
    Deliver(eventPayload("update", ~mrDraft, mrReviewers, Some([reviewer_ids |-> Undefined])),
            mrReviewers, ~mrDraft)

\* open, close, merge, reopen.
Lifecycle ==
    \E action \in Actions \ {"update"} :
        Deliver(eventPayload(action, mrDraft, mrReviewers, Some([reviewer_ids |-> Undefined])),
                mrReviewers, mrDraft)

MRInit ==
    /\ GateIdle
    /\ mrReviewers \in ReviewerLists
    /\ mrDraft \in BOOLEAN
    /\ lastEvent = Undefined
    /\ evCount = 0
    /\ addedCount = 0
    /\ triggeredCount = 0
    /\ ParseIdle
    /\ PromptIdle
    /\ PoolIdle
    /\ DeliveryIdle
    /\ RunIdle

MRNext ==
    \/ ReviewersChanged
    \/ FieldEdited
    \/ DraftToggled
    \/ Lifecycle

MRSpec == MRInit /\ [][MRNext]_vars

\* ------------------------------------------------------------------------
\* DeliverySpec: one event delivered MaxDeliveries times to an entry point
\* ------------------------------------------------------------------------
Deliveries == 1..MaxDeliveries

Secret == "s3cret"
\* process.env["GITLAB_WEBHOOK_SECRET"] for the handler (unset, empty or set);
\* requireEnv("GITLAB_WEBHOOK_SECRET") for the receiver
Secrets(e) == IF e = "lambda" THEN {Undefined, Some(""), Some(Secret)} ELSE {Some(Secret)}
HeaderTokens == {Undefined, Some(""), Some(Secret), Some("other")}

\* Request lines. The handler never reads the method or the path of its
\* event; the receiver routes on them.
HttpRequests(e) ==
    IF e = "lambda" THEN {[method |-> "POST", url |-> "/"]}
    ELSE {[method |-> "POST", url |-> "/webhook"], [method |-> "POST", url |-> "/"],
          [method |-> "POST", url |-> "/health"], [method |-> "GET", url |-> "/health"],
          [method |-> "GET", url |-> "/webhook"]}

isHealthCheck(q) == q.method = "GET" /\ q.url = "/health"

\* every request is taken for a webhook (mutant)
isWebhookPost_AnyRequest(q) == TRUE

\* req.method === "POST" && (req.url === "/webhook" || req.url === "/")
isWebhookPost(q) == q.method = "POST" /\ (q.url = "/webhook" \/ q.url = "/")

\* the answer to an event that does not pass the gate, in the handler's shape
\* (mutant: an error status)
ignoredResponse_Error ==
    [statusCode |-> 500, message |-> "Event ignored - review not triggered"]

\* the answer to an event that does not pass the gate
ignoredResponse ==
    [statusCode |-> 200, message |-> "Event ignored - review not triggered"]

\* The update that adds the bot as reviewer, and payloads lacking a part.
AddsBot ==
    eventPayload("update", FALSE, <<Bot>>,
                 Some([reviewer_ids |-> Some([previous |-> Some(<<>>),
                                              current |-> Some(<<Bot.id>>)])]))
OpensMR == eventPayload("open", FALSE, <<Bot>>, Some([reviewer_ids |-> Undefined]))
NoReviewers == [eventPayload("update", FALSE, <<>>, Undefined) EXCEPT !.reviewers = Undefined]
NoChanges == eventPayload("update", FALSE, <<Alice, Bot>>, Undefined)

\* Request bodies: no body, text that is not JSON, the JSON texts null, {}
\* and {"object_kind": "merge_request"}, and merge request payloads.
NoPayload(shape) == [shape |-> shape, p |-> Undefined]
Bodies ==
    {NoPayload(sh) : sh \in {"absent", "malformed", "null", "empty", "noAttributes"}}
    \cup {[shape |-> "payload", p |-> Some(p)] : p \in {AddsBot, OpensMR, NoReviewers, NoChanges}}

\* the header must equal the secret even when none is configured (mutant)
verifyWebhookToken_RequireSecret(headerToken, configured) ==
    headerToken = configured

\* if (!secret) return true; return headerToken === secret;
verifyWebhookToken(headerToken, configured) ==
    IF configured = Undefined \/ configured = Some("") THEN TRUE
    ELSE headerToken = configured

\* JSON.parse(event.body ?? "{}") in the handler, JSON.parse(rawBody) in the
\* receiver, where a request without body has the empty text as rawBody;
\* Undefined stands for the SyntaxError.
parseBody(e, b) ==
    IF b.shape = "malformed" THEN Undefined
    ELSE IF b.shape = "absent"
         THEN (IF e = "lambda" THEN Some(NoPayload("empty")) ELSE Undefined)
    ELSE Some(b)

\* The call shouldTriggerReview(payload, config) on a decoded body: reading
\* object_kind of null throws, {} has no object_kind and gives false, and
\* reading action of a missing object_attributes throws.
gateCall(decodedBody, config) ==
    IF decodedBody.shape = "null" THEN [threw |-> TRUE]
    ELSE IF decodedBody.shape = "empty" THEN [threw |-> FALSE, result |-> FALSE]
    ELSE IF decodedBody.shape = "noAttributes" THEN [threw |-> TRUE]
    ELSE [threw |-> FALSE, result |-> shouldTriggerReview(decodedBody.p[1], config)]

\* no request is rejected for its token (mutant)
rejects_Never(ok) == FALSE

\* if (!verifyWebhookToken(...)) return 401
rejects(ok) == ~ok

\* a review is started once per event, not once per delivery (mutant)
startsRun_OncePerEvent(result, startedByOthers) == result /\ ~startedByOthers

\* if (!shouldTriggerReview(...)) return 200 "Event ignored"
startsRun(result, startedByOthers) == result

DeliveryInit ==
    /\ GateIdle
    /\ MRIdle
    /\ ParseIdle
    /\ PromptIdle
    /\ PoolIdle
    /\ entry \in {"lambda", "server"}
    /\ httpRequest \in HttpRequests(entry)
    /\ webhookSecret \in Secrets(entry)
    /\ xGitlabToken \in HeaderTokens
    /\ rawBody \in Bodies
    /\ rpc = [d \in Deliveries |-> IF entry = "server" THEN "route" ELSE "verify"]
    /\ verified = [d \in Deliveries |-> Undefined]
    /\ gateOut = [d \in Deliveries |-> Undefined]
    /\ response = [d \in Deliveries |-> Undefined]
    /\ work = <<>>
    /\ RunIdle

Respond(d, statusCode, message) ==
    /\ response' = [response EXCEPT ![d] = Some([statusCode |-> statusCode,
                                                  message |-> message])]
    /\ rpc' = [rpc EXCEPT ![d] = "done"]

\* the receiver's routing: the health check, and 404 for what is not a POST
\* to /webhook or /
Route(d) ==
    /\ entry = "server"
    /\ rpc[d] = "route"
    /\ IF isHealthCheck(httpRequest) THEN Respond(d, 200, "ok")
       ELSE IF ~isWebhookPost(httpRequest) THEN Respond(d, 404, "Not found")
       ELSE /\ rpc' = [rpc EXCEPT ![d] = "verify"]
            /\ UNCHANGED response
    /\ UNCHANGED <<entry, httpRequest, webhookSecret, xGitlabToken, rawBody, verified, gateOut,
                   work, gateVars, mrVars, parseVars, promptVars, poolVars, runVars>>

\* the token check, first step of the handler and of the receiver's webhook route
Verify(d) ==
    /\ rpc[d] = "verify"
    /\ LET ok == verifyWebhookToken(xGitlabToken, webhookSecret)
       IN  /\ verified' = [verified EXCEPT ![d] = Some(ok)]
           /\ IF rejects(ok)
              THEN Respond(d, 401, "Unauthorized")
              ELSE /\ rpc' = [rpc EXCEPT ![d] = "parse"]
                   /\ UNCHANGED response
    /\ UNCHANGED <<entry, httpRequest, webhookSecret, xGitlabToken, rawBody, gateOut, work,
                   gateVars, mrVars, parseVars, promptVars, poolVars, runVars>>

\* the body is decoded; a SyntaxError is answered with 400
ParseBody(d) ==
    /\ rpc[d] = "parse"
    /\ IF parseBody(entry, rawBody) = Undefined
       THEN Respond(d, 400, "Invalid JSON")
       ELSE /\ rpc' = [rpc EXCEPT ![d] = "gate"]
            /\ UNCHANGED response
    /\ UNCHANGED <<entry, httpRequest, webhookSecret, xGitlabToken, rawBody, verified, gateOut, work,
                   gateVars, mrVars, parseVars, promptVars, poolVars, runVars>>

\* The trigger gate, called outside any try: an exception it throws leaves
\* the entry point unanswered ("crashed"). The receiver calls the gate of its
\* own webhook module with the bot username; it is taken to decide as the
\* handler's gate does.
GateStep(d) ==
    /\ rpc[d] = "gate"
    /\ LET g == gateCall(parseBody(entry, rawBody)[1], Config)
           startedByOthers == \E i \in DOMAIN work : work[i].by # d
       IN  IF g.threw
           THEN /\ rpc' = [rpc EXCEPT ![d] = "crashed"]
                /\ UNCHANGED <<gateOut, response>>
           ELSE /\ gateOut' = [gateOut EXCEPT ![d] = Some(g.result)]
                /\ IF startsRun(g.result, startedByOthers)
                   THEN /\ rpc' = [rpc EXCEPT ![d] = "work"]
                        /\ UNCHANGED response
                   ELSE Respond(d, ignoredResponse.statusCode, ignoredResponse.message)
    /\ UNCHANGED <<entry, httpRequest, webhookSecret, xGitlabToken, rawBody, verified, work,
                   gateVars, mrVars, parseVars, promptVars, poolVars, runVars>>

\* How a run of the handler ends: its response and the note it leaves.
RunOutcomes ==
    {[statusCode |-> 200, message |-> "Review posted", note |-> "summary"],
     [statusCode |-> 200, message |-> "No diffs to review", note |-> "nochanges"],
     [statusCode |-> 500, message |-> "Review failed", note |-> "failure"],
     [statusCode |-> 500, message |-> "Review failed", note |-> "none"]}

\* the handler's try block as one step: the review run of Spec
RunReview(d) ==
    /\ entry = "lambda"
    /\ rpc[d] = "work"
    /\ \E o \in RunOutcomes :
          /\ work' = Append(work, [by |-> d, call |-> "run", ok |-> o.statusCode = 200,
                                   note |-> o.note])
          /\ Respond(d, o.statusCode, o.message)
    /\ UNCHANGED <<entry, httpRequest, webhookSecret, xGitlabToken, rawBody, verified, gateOut,
                   gateVars, mrVars, parseVars, promptVars, poolVars, runVars>>

\* the receiver's triggerReviewPipeline call: 200, or 502 when it fails
TriggerPipeline(d) ==
    /\ entry = "server"
    /\ rpc[d] = "work"
    /\ \E ok \in BOOLEAN :
          /\ work' = Append(work, [by |-> d, call |-> "triggerReviewPipeline", ok |-> ok,
                                   note |-> "none"])
          /\ IF ok
             THEN Respond(d, 200, "Review pipeline triggered")
             ELSE Respond(d, 502, "Failed to trigger review pipeline")
    /\ UNCHANGED <<entry, httpRequest, webhookSecret, xGitlabToken, rawBody, verified, gateOut,
                   gateVars, mrVars, parseVars, promptVars, poolVars, runVars>>

DeliveryNext ==
    \E d \in Deliveries :
        \/ Route(d)
        \/ Verify(d)
        \/ ParseBody(d)
        \/ GateStep(d)
        \/ RunReview(d)
        \/ TriggerPipeline(d)

DeliverySpec == DeliveryInit /\ [][DeliveryNext]_vars

\* ------------------------------------------------------------------------
\* The review run: data
\* ------------------------------------------------------------------------
FileRenamed == [old_path |-> "old.ts", new_path |-> "new.ts"]
FileA == [old_path |-> "a.ts", new_path |-> "a.ts"]
\* a new file at the path the renamed file left
FileReplaced == [old_path |-> "old.ts", new_path |-> "old.ts"]

VersionEmpty ==
    [id |-> 1, base_commit_sha |-> "base1", head_commit_sha |-> "head1",
     start_commit_sha |-> "start1", diffs |-> <<>>]
VersionTwo ==
    [id |-> 2, base_commit_sha |-> "base2", head_commit_sha |-> "head2",
     start_commit_sha |-> "start2", diffs |-> <<FileRenamed, FileA, FileReplaced>>]
\* the version a push during the run creates
VersionThree ==
    [id |-> 3, base_commit_sha |-> "base3", head_commit_sha |-> "head3",
     start_commit_sha |-> "start3", diffs |-> <<FileA>>]

\* What GET .../versions can list for the MR, newest first.
ServerStates == {<<>>, <<VersionEmpty>>, <<VersionTwo, VersionEmpty>>}

CommentPool ==
    {[file |-> "a.ts", line |-> 3, body |-> "b1", severity |-> "warning"],
     [file |-> "old.ts", line |-> 5, body |-> "b2", severity |-> "critical"],
     [file |-> "x.ts", line |-> 7, body |-> "b3", severity |-> "info"]}

\* What reviewMergeRequest can return (parseReviewResponse's result).
ReviewResults == [summary : {"LGTM"}, comments : SeqsUpTo(CommentPool, MaxComments)]

TmpDirs == {"/tmp/gitlab-review-1", "/tmp/gitlab-review-2"}

\* Error messages are sequences of text parts.
ApiError == <<"GitLab API error">>
NoVersionsError == <<"No diff versions found for MR">>
MkdtempError == <<"ENOSPC: mkdtemp">>
AssistantError == <<"Copilot session error">>

\* the clone URL: url.username = "oauth2"; url.password = token
buildAuthUrl(gitHttpUrl, token) ==
    <<"https://", "oauth2", ":", token, "@">> \o gitHttpUrl

GitHttpUrl == <<"gitlab.example.com/group/project.git">>

\* the file and arguments handed to execFile
gitCommand(authUrl, d) ==
    <<"git", " clone --depth 1 --single-branch --branch feature ">> \o authUrl \o <<" ", d>>

\* What execFile rejects with when git exits non-zero or is killed at the
\* timeout: the message is "Command failed: ", the file and its arguments
\* joined by spaces, a newline and git's stderr.
GitErrors(cmd) ==
    {<<"Command failed: ">> \o cmd \o <<NL, stderr>> :
        stderr \in {"", "fatal: Authentication failed"}}
CloneError(e) == <<"Failed to clone repository: ">> \o e

\* ------------------------------------------------------------------------
\* GitLabClient: requests that post to the MR
\* ------------------------------------------------------------------------
NoBody == [tag |-> "", file |-> "", line |-> 0, text |-> <<>>, n |-> 0]

\* the general note without the file:line prefix (mutant)
fileLineBody_NoPrefix(c) ==
    [NoBody EXCEPT !.text = <<c.body>>]

\* `**${comment.file}:${comment.line}** - ${comment.body}`
fileLineBody(c) ==
    [NoBody EXCEPT !.tag = "file:line", !.file = c.file, !.line = c.line, !.text = <<c.body>>]

\* `${severityIcon} **${SEVERITY}**: ${comment.body}`
severityBody(c) ==
    [NoBody EXCEPT !.tag = c.severity, !.text = <<c.body>>]

\* the summary note: heading, review.summary, "_N inline comment(s) posted._"
summaryBody(r) ==
    [NoBody EXCEPT !.tag = "Copilot Code Review", !.text = <<r.summary>>, !.n = Len(r.comments)]

noChangesBody == [NoBody EXCEPT !.tag = "No file changes detected"]

\* the failure note without the error's message (mutant)
failureBody_NoMessage(e) == [NoBody EXCEPT !.tag = "Review failed"]

\* "Review failed with an error ..." followed by the error's message
failureBody(e) == [NoBody EXCEPT !.tag = "Review failed", !.text = e]

\* the last matching diff file is taken, not the first (mutant)
findDiffFile_LastMatch(diffs, file) ==
    LET I == {i \in DOMAIN diffs : diffs[i].new_path = file \/ diffs[i].old_path = file}
    IN  IF I = {} THEN Undefined ELSE Some(diffs[CHOOSE m \in I : \A k \in I : k <= m])

\* diffVersion.diffs.find((d) => d.new_path === file || d.old_path === file)
findDiffFile(diffs, file) ==
    LET I == {i \in DOMAIN diffs : diffs[i].new_path = file \/ diffs[i].old_path = file}
    IN  IF I = {} THEN Undefined ELSE Some(diffs[Min(I)])

\* the DiffPosition of an inline discussion
position(dv, diffFile, c) ==
    [position_type |-> "text",
     base_sha |-> dv.base_commit_sha,
     head_sha |-> dv.head_commit_sha,
     start_sha |-> dv.start_commit_sha,
     old_path |-> diffFile.old_path,
     new_path |-> diffFile.new_path,
     new_line |-> c.line]

\* One POST to the MR (notes or discussions endpoint) and its result.
Post(op, kind, c, body, pos, ok) ==
    requests' = Append(requests,
                       [op |-> op, kind |-> kind, comment |-> c, body |-> body,
                        position |-> pos, ok |-> ok,
                        error |-> IF ok THEN <<>> ELSE ApiError])

\* ------------------------------------------------------------------------
\* The review run: control flow of handler (lambda) and main (ci)
\* ------------------------------------------------------------------------
\* a thrown error skips the notification (mutant)
catchEntry_NoNotification == "finally"

\* where a throw inside the try block lands
catchEntry == "catch"

Throw(e) ==
    /\ err' = Some(e)
    /\ pc' = catchEntry

\* the error reported is the notification's when that failed too (mutant)
reportedError_Notification(e, notifyError) ==
    IF notifyError # <<>> THEN notifyError ELSE e

\* err instanceof Error ? err.message : String(err)
reportedError(e, notifyError) == e

\* What the run reports: the handler's response (status code and body), or
\* main's process.exitCode with the error it logs; -1 stands for "no such field".
Success(v, message, r, p, f) ==
    [statusCode |-> IF v = "lambda" THEN 200 ELSE -1,
     exitCode |-> IF v = "ci" THEN (IF f > 0 THEN 1 ELSE 0) ELSE -1,
     message |-> message,
     error |-> <<>>,
     comments |-> IF r = Undefined THEN 0 ELSE Len(r[1].comments),
     posted |-> p,
     failed |-> f]

Failure(v, e) ==
    [statusCode |-> IF v = "lambda" THEN 500 ELSE -1,
     exitCode |-> IF v = "ci" THEN 1 ELSE -1,
     message |-> "Review failed",
     error |-> e,
     comments |-> 0,
     posted |-> 0,
     failed |-> 0]

\* the step after a successful clone / after a non-empty diff was fetched
\* the checkout is made a second time before the run goes on (mutant)
afterClone_Again ==
    IF Cardinality(created) < 2 THEN "mkdtemp"
    ELSE IF variant = "lambda" THEN "review" ELSE "getVersions"

afterClone == IF variant = "lambda" THEN "review" ELSE "getVersions"
\* the handler goes on to the review without a checkout (mutant)
afterDiffs_NoCheckout == "review"

afterDiffs == IF variant = "lambda" THEN "mkdtemp" ELSE "review"

RunInit ==
    /\ GateIdle
    /\ MRIdle
    /\ ParseIdle
    /\ PromptIdle
    /\ PoolIdle
    /\ DeliveryIdle
    /\ variant \in {"lambda", "ci"}
    /\ pc = IF variant = "lambda" THEN "getVersions" ELSE "mkdtemp"
    /\ serverVersions \in ServerStates
    /\ versions = Undefined
    /\ gets = <<>>
    /\ reviewOpts = Undefined
    /\ diffVersion = Undefined
    /\ dir = Undefined
    /\ clone = Undefined
    /\ created = {}
    /\ fs = {}
    /\ rmLog = <<>>
    /\ cleanupCalls = 0
    /\ gitErr = Undefined
    /\ assistantCalls = 0
    /\ review = Undefined
    /\ idx = 0
    /\ posted = 0
    /\ failed = 0
    /\ requests = <<>>
    /\ err = Undefined
    /\ outcome = Undefined

\* A push adds a diff version to the MR while the run is under way; the
\* server lists it first.
Push ==
    /\ pc # "done"
    /\ ~includes(serverVersions, VersionThree)
    /\ serverVersions' = <<VersionThree>> \o serverVersions
    /\ UNCHANGED <<gateVars, mrVars, parseVars, promptVars, poolVars, reqVars, fetchVars, variant, pc, diffVersion,
                   dir, clone, created, fs, rmLog, cleanupCalls, gitErr, assistantCalls,
                   review, idx, posted, failed, requests, err, outcome>>

Get(op, id) == gets' = Append(gets, [op |-> op, id |-> id])

\* the last version listed is taken (mutant)
latest_Last(listed) == listed[Len(listed)]

\* const latest = versions[0]!;  (versions are returned newest first)
latest(listed) == listed[1]

\* GET .../versions/:id
versionDetail(server, id) == CHOOSE v \in {server[i] : i \in DOMAIN server} : v.id = id

\* getLatestDiffs: list the versions, throw when there is none.
GetVersions ==
    /\ pc = "getVersions"
    /\ Get("versions", 0)
    /\ \/ /\ serverVersions # <<>>
          /\ versions' = Some(serverVersions)
          /\ pc' = "getDetail"
          /\ UNCHANGED err
       \/ /\ serverVersions = <<>>
          /\ versions' = Some(serverVersions)
          /\ Throw(NoVersionsError)
       \/ /\ Throw(ApiError)
          /\ UNCHANGED versions
    /\ UNCHANGED <<gateVars, mrVars, parseVars, promptVars, poolVars, reqVars, reviewOpts, variant, serverVersions,
                   diffVersion, dir, clone,
                   created, fs, rmLog, cleanupCalls, gitErr, assistantCalls, review,
                   idx, posted, failed, requests, outcome>>

\* getLatestDiffs: the detail of versions[0]; then the empty-diff test.
GetDetail ==
    /\ pc = "getDetail"
    /\ Get("detail", latest(versions[1]).id)
    /\ \/ LET detail == versionDetail(serverVersions, latest(versions[1]).id)
          IN  /\ diffVersion' = Some(detail)
              /\ pc' = IF Len(detail.diffs) = 0 THEN "noChanges" ELSE afterDiffs
              /\ UNCHANGED err
       \/ /\ Throw(ApiError)
          /\ UNCHANGED diffVersion
    /\ UNCHANGED <<gateVars, mrVars, parseVars, promptVars, poolVars, reqVars, versions, reviewOpts, variant,
                   serverVersions, dir, clone,
                   created, fs, rmLog, cleanupCalls, gitErr, assistantCalls, review,
                   idx, posted, failed, requests, outcome>>

\* the "No file changes detected" note, then return
NoChangesNote ==
    /\ pc = "noChanges"
    /\ \/ /\ Post("note", "nochanges", 0, noChangesBody, Undefined, TRUE)
          /\ outcome' = Some(Success(variant, "No diffs to review", Undefined, 0, 0))
          /\ pc' = "finally"
          /\ UNCHANGED err
       \/ /\ Post("note", "nochanges", 0, noChangesBody, Undefined, FALSE)
          /\ Throw(ApiError)
          /\ UNCHANGED outcome
    /\ UNCHANGED <<gateVars, mrVars, parseVars, promptVars, poolVars, reqVars, fetchVars, variant, serverVersions, diffVersion, dir, clone,
                   created, fs, rmLog, cleanupCalls, gitErr, assistantCalls, review,
                   idx, posted, failed>>

\* cloneRepository: mkdtemp, outside its try block
Mkdtemp ==
    /\ pc = "mkdtemp"
    /\ \/ \E d \in TmpDirs \ created :
             /\ dir' = Some(d)
             /\ created' = created \cup {d}
             /\ fs' = fs \cup {d}
             /\ pc' = "gitClone"
             /\ UNCHANGED err
       \/ /\ Throw(MkdtempError)
          /\ UNCHANGED <<dir, created, fs>>
    /\ UNCHANGED <<gateVars, mrVars, parseVars, promptVars, poolVars, reqVars, fetchVars, variant, serverVersions, diffVersion, clone,
                   rmLog, cleanupCalls, gitErr, assistantCalls, review,
                   idx, posted, failed, requests, outcome>>

\* cloneRepository: git clone with its two minute timeout
GitClone ==
    /\ pc = "gitClone"
    /\ \/ /\ clone' = Some([dir |-> dir[1]])
          /\ pc' = afterClone
          /\ UNCHANGED gitErr
       \/ \E e \in GitErrors(gitCommand(buildAuthUrl(GitHttpUrl, Config.gitlabToken), dir[1])) :
             /\ gitErr' = Some(e)
             /\ pc' = "cloneRm"
             /\ UNCHANGED clone
    /\ UNCHANGED <<gateVars, mrVars, parseVars, promptVars, poolVars, reqVars, fetchVars, variant, serverVersions, diffVersion, dir,
                   created, fs, rmLog, cleanupCalls, assistantCalls, review,
                   idx, posted, failed, requests, err, outcome>>

\* One rm(dir, {recursive, force}): it removes the directory or fails.
Rm(d, ok) ==
    /\ rmLog' = Append(rmLog, [dir |-> d, ok |-> ok])
    /\ fs' = IF ok THEN fs \ {d} ELSE fs

\* cloneRepository's catch: remove the directory, swallow, rethrow wrapped
CloneRm ==
    /\ pc = "cloneRm"
    /\ \E ok \in BOOLEAN : Rm(dir[1], ok)
    /\ Throw(CloneError(gitErr[1]))
    /\ UNCHANGED <<gateVars, mrVars, parseVars, promptVars, poolVars, reqVars, fetchVars, variant, serverVersions, diffVersion, dir, clone,
                   created, cleanupCalls, gitErr, assistantCalls, review,
                   idx, posted, failed, requests, outcome>>

\* reviewMergeRequest on the clone; postReview starts right after it returns
Review ==
    /\ pc = "review"
    /\ assistantCalls' = assistantCalls + 1
    /\ reviewOpts' = Some([repoDir |-> clone[1].dir, diffVersion |-> diffVersion[1]])
    /\ \/ \E r \in ReviewResults :
             /\ review' = Some(r)
             /\ idx' = 1
             /\ posted' = 0
             /\ failed' = 0
             /\ pc' = IF Len(r.comments) = 0 THEN "summary" ELSE "postComment"
             /\ UNCHANGED err
       \/ /\ Throw(AssistantError)
          /\ UNCHANGED <<review, idx, posted, failed>>
    /\ UNCHANGED <<gateVars, mrVars, parseVars, promptVars, poolVars, reqVars, versions, gets, variant, serverVersions,
                   diffVersion, dir, clone,
                   created, fs, rmLog, cleanupCalls, gitErr, requests, outcome>>

\* postReview works on the newest version of the server (mutant)
postedAgainst_Newest == serverVersions[1]

\* the diffVersion argument of postReview: the version the run fetched
postedAgainst == diffVersion[1]

comments == review[1].comments

\* the loop is left after the comment at hand, whatever follows it (mutant)
Advance_LeaveLoop ==
    /\ idx' = idx + 1
    /\ pc' = "summary"

\* postReview's loop moves to the next comment, or leaves the loop
Advance ==
    /\ idx' = idx + 1
    /\ pc' = IF idx + 1 > Len(comments) THEN "summary" ELSE "postComment"

\* postReview, try block: the not-found note or the inline discussion
PostComment ==
    /\ pc = "postComment"
    /\ LET c == comments[idx]
           diffFile == findDiffFile(postedAgainst.diffs, c.file)
           op == IF diffFile = Undefined THEN "note" ELSE "discussion"
           kind == IF diffFile = Undefined THEN "notfound" ELSE "inline"
           body == IF diffFile = Undefined THEN fileLineBody(c) ELSE severityBody(c)
           pos == IF diffFile = Undefined THEN Undefined
                  ELSE Some(position(postedAgainst, diffFile[1], c))
       IN  \/ /\ Post(op, kind, idx, body, pos, TRUE)
              /\ posted' = posted + 1
              /\ Advance
              /\ UNCHANGED failed
           \/ /\ Post(op, kind, idx, body, pos, FALSE)
              /\ failed' = failed + 1
              /\ pc' = "fallback"
              /\ UNCHANGED <<posted, idx>>
    /\ UNCHANGED <<gateVars, mrVars, parseVars, promptVars, poolVars, reqVars, fetchVars, variant, serverVersions, diffVersion, dir, clone,
                   created, fs, rmLog, cleanupCalls, gitErr, assistantCalls, review,
                   err, outcome>>

\* the counter is left as it is when the fallback succeeds (mutant)
recovered_NoDecrement(f) == f

\* failed--; // recovered
recovered(f) == f - 1

\* postReview, catch block: the general-note fallback
Fallback ==
    /\ pc = "fallback"
    /\ \/ /\ Post("note", "fallback", idx, fileLineBody(comments[idx]), Undefined, TRUE)
          /\ posted' = posted + 1
          /\ failed' = recovered(failed)
       \/ /\ Post("note", "fallback", idx, fileLineBody(comments[idx]), Undefined, FALSE)
          /\ UNCHANGED <<posted, failed>>
    /\ Advance
    /\ UNCHANGED <<gateVars, mrVars, parseVars, promptVars, poolVars, reqVars, fetchVars, variant, serverVersions, diffVersion, dir, clone,
                   created, fs, rmLog, cleanupCalls, gitErr, assistantCalls, review,
                   err, outcome>>

\* the summary is posted only when some comment was posted (mutant)
summaryDue_OnlyIfPosted(p, f) == p > 0

\* the summary note is posted unconditionally after the loop
summaryDue(p, f) == TRUE

\* postReview's summary note, outside any try; then the run's success report
Summary ==
    /\ pc = "summary"
    /\ \/ /\ IF summaryDue(posted, failed)
             THEN Post("note", "summary", 0, summaryBody(review[1]), Undefined, TRUE)
             ELSE UNCHANGED requests
          /\ outcome' = Some(Success(variant, "Review posted", review, posted, failed))
          /\ pc' = "finally"
          /\ UNCHANGED err
       \/ /\ summaryDue(posted, failed)
          /\ Post("note", "summary", 0, summaryBody(review[1]), Undefined, FALSE)
          /\ Throw(ApiError)
          /\ UNCHANGED outcome
    /\ UNCHANGED <<gateVars, mrVars, parseVars, promptVars, poolVars, reqVars, fetchVars, variant, serverVersions, diffVersion, dir, clone,
                   created, fs, rmLog, cleanupCalls, gitErr, assistantCalls, review,
                   idx, posted, failed>>

\* the run's catch block: one failure note, its failure ignored
FailureNote ==
    /\ pc = "catch"
    /\ \E ok \in BOOLEAN :
          /\ Post("note", "failure", 0, failureBody(err[1]), Undefined, ok)
          /\ outcome' = Some(Failure(variant,
                                     reportedError(err[1], IF ok THEN <<>> ELSE ApiError)))
    /\ pc' = "finally"
    /\ UNCHANGED <<gateVars, mrVars, parseVars, promptVars, poolVars, reqVars, fetchVars, variant, serverVersions, diffVersion, dir, clone,
                   created, fs, rmLog, cleanupCalls, gitErr, assistantCalls, review,
                   idx, posted, failed, err>>

\* the cleanup is never due (mutant)
cleanupDue_Never(c) == FALSE

\* if (clone) / if (cleanup)
cleanupDue(c) == c # Undefined

\* a failed cleanup turns the report into a failure (mutant)
afterCleanup_Propagates(out, ok) ==
    IF ok THEN out ELSE Some(Failure(variant, <<"cleanup failed">>))

\* a cleanup error is caught and logged: the report stays as it is
afterCleanup(out, ok) == out

\* the summary is posted once more after the cleanup (mutant)
afterFinally_PostsAgain ==
    IF review # Undefined /\ err = Undefined /\ cleanupCalls < 1 THEN "summary" ELSE "done"

\* nothing follows the finally block: the handler returns, main ends
afterFinally == "done"

\* the run's finally block
Finally ==
    /\ pc = "finally"
    /\ \/ /\ cleanupDue(clone)
          /\ cleanupCalls' = cleanupCalls + 1
          /\ \E ok \in BOOLEAN :
                /\ Rm(clone[1].dir, ok)
                /\ outcome' = afterCleanup(outcome, ok)
       \/ /\ ~cleanupDue(clone)
          /\ UNCHANGED <<cleanupCalls, rmLog, fs, outcome>>
    /\ pc' = afterFinally
    /\ UNCHANGED <<gateVars, mrVars, parseVars, promptVars, poolVars, reqVars, fetchVars, variant, serverVersions, diffVersion, dir, clone,
                   created, gitErr, assistantCalls, review, idx, posted, failed,
                   requests, err>>

Next ==
    \/ Push
    \/ GetVersions
    \/ GetDetail
    \/ NoChangesNote
    \/ Mkdtemp
    \/ GitClone
    \/ CloneRm
    \/ Review
    \/ PostComment
    \/ Fallback
    \/ Summary
    \/ FailureNote
    \/ Finally

Spec == RunInit /\ [][Next]_vars

\* Every step of a run is an awaited call that returns or fails.
LiveSpec == Spec /\ WF_vars(Next)

\* ------------------------------------------------------------------------
\* Claims on the trigger gate
\* ------------------------------------------------------------------------
gated == payload # Undefined /\ gateResult # Undefined

\* the payload passed the kind, action and draft tests and lists the bot
reachesReviewerCheck(p) ==
    /\ p.object_kind = "merge_request"
    /\ p.object_attributes.action = "update"
    /\ ~p.object_attributes.draft
    /\ ~p.object_attributes.work_in_progress
    /\ p.reviewers # Undefined
    /\ includes(p.reviewers[1], Bot)

\* C1: over the events of one MR, an update that does not add the bot (it
\* was a reviewer before the event and still is) never makes the gate return
\* true, whatever the shape of the change-set, so the number of triggered
\* reviews never exceeds the number of times the bot was added.
C1_NoRetriggerWithoutAdd ==
    /\ (/\ lastEvent # Undefined
        /\ lastEvent[1].action = "update"
        /\ lastEvent[1].wasReviewer
        /\ lastEvent[1].isReviewer) => gateResult = Some(FALSE)
    /\ triggeredCount <= addedCount

ExampleUpdate(previous, current) ==
    eventPayload("update", FALSE, <<Alice, Bot>>,
                 Some([reviewer_ids |-> Some([previous |-> Some(previous),
                                              current |-> Some(current)])]))

\* C2: for an update that is not draft/WIP, lists the bot (id B) among the
\* reviewers and carries a reviewer_ids record, the gate returns true iff B
\* is in the record's current ids and not in its previous ids.
C2_RecordDecides ==
    /\ (gated /\ reachesReviewerCheck(payload[1])
              /\ reviewerIdsOf(payload[1].changes) # Undefined) =>
          LET rec == reviewerIdsOf(payload[1].changes)[1]
          IN  gateResult[1] <=> (/\ includes(OrEmpty(rec.current), Bot.id)
                                 /\ ~includes(OrEmpty(rec.previous), Bot.id))
    /\ gated =>
          /\ shouldTriggerReview(ExampleUpdate(<<1>>, <<1, 2>>), Config)
          /\ ~shouldTriggerReview(ExampleUpdate(<<1, 2>>, <<1, 2>>), Config)
          /\ ~shouldTriggerReview(ExampleUpdate(<<1, 2>>, <<1>>), Config)

C2_Witness ==
    /\ gated
    /\ reachesReviewerCheck(payload[1])
    /\ reviewerIdsOf(payload[1].changes) =
          Some([previous |-> Some(<<1>>), current |-> Some(<<1, 2>>)])
    /\ gateResult = Some(TRUE)

\* C3: an event whose action is not "update" never triggers, whatever its
\* reviewers list and reviewer_ids record contain.
C3_OnlyUpdateTriggers ==
    (gated /\ payload[1].object_attributes.action # "update") => gateResult = Some(FALSE)

C3_Witness ==
    /\ gated
    /\ payload[1].object_kind = "merge_request"
    /\ payload[1].object_attributes = [action |-> "open", draft |-> FALSE,
                                        work_in_progress |-> FALSE]
    /\ payload[1].reviewers = Some(<<Bot>>)
    /\ reviewerIdsOf(payload[1].changes) =
          Some([previous |-> Some(<<>>), current |-> Some(<<2>>)])
    /\ gateResult = Some(FALSE)

\* C4: an event with draft = true or work_in_progress = true never triggers,
\* even when the bot is a current reviewer and the record shows it freshly added.
C4_DraftNeverTriggers ==
    (gated /\ (\/ payload[1].object_attributes.draft
               \/ payload[1].object_attributes.work_in_progress)) =>
        gateResult = Some(FALSE)

C4_Witness ==
    /\ gated
    /\ payload[1].object_kind = "merge_request"
    /\ payload[1].object_attributes = [action |-> "update", draft |-> FALSE,
                                        work_in_progress |-> TRUE]
    /\ payload[1].reviewers = Some(<<Alice, Bot>>)
    /\ reviewerIdsOf(payload[1].changes) =
          Some([previous |-> Some(<<1>>), current |-> Some(<<1, 2>>)])
    /\ gateResult = Some(FALSE)

\* ------------------------------------------------------------------------
\* Claims on the review run
\* ------------------------------------------------------------------------
\* the indices of the requests that satisfy a test
Where(P(_)) == {i \in DOMAIN requests : P(requests[i])}

rmCount(d) == Cardinality({i \in DOMAIN rmLog : rmLog[i].dir = d})

isRunNote(q) == q.op = "note" /\ q.kind \in {"summary", "nochanges", "failure"}
isFailureNote(q) == q.kind = "failure"
isSummary(q) == q.kind = "summary"

\* postReview was called and has returned or thrown
postReviewOver == review # Undefined /\ pc \in {"catch", "finally", "done"}
\* postReview was called and has returned its counters
postReviewReturned ==
    /\ postReviewOver
    /\ \E i \in DOMAIN requests : isSummary(requests[i]) /\ requests[i].ok

C6_CleanupNeverChangesOutcome ==
    pc \in {"finally", "done"} =>
        outcome = Some(IF err = Undefined
                       THEN Success(variant,
                                    IF review = Undefined THEN "No diffs to review"
                                    ELSE "Review posted",
                                    review, posted, failed)
                       ELSE Failure(variant, err[1]))

C6_Witness ==
    /\ pc = "done"
    /\ cleanupCalls = 1
    /\ rmLog[Len(rmLog)].ok = FALSE
    /\ outcome # Undefined
    /\ outcome[1].error = <<>>
    /\ outcome[1].posted = 1

C8_OneFailureNote ==
    /\ Cardinality(Where(isFailureNote)) <=
          (IF err # Undefined /\ pc \in {"finally", "done"} THEN 1 ELSE 0)
    /\ (err # Undefined /\ pc \in {"finally", "done"}) =>
          /\ \E i \in DOMAIN requests :
                /\ i = Len(requests)
                /\ isFailureNote(requests[i])
                /\ requests[i].op = "note"
                /\ requests[i].body.text = err[1]
          /\ outcome # Undefined
          /\ outcome[1].error = err[1]
          /\ outcome[1].statusCode = (IF variant = "lambda" THEN 500 ELSE -1)
          /\ outcome[1].exitCode = (IF variant = "ci" THEN 1 ELSE -1)

C8_Witness ==
    /\ pc = "done"
    /\ gitErr # Undefined
    /\ gitErr[1][Len(gitErr[1])] = ""
    /\ err = Some(CloneError(gitErr[1]))
    /\ Len(requests) = 1
    /\ isFailureNote(requests[1])
    /\ ~requests[1].ok
    /\ requests[1].error = ApiError
    /\ outcome[1].error = CloneError(gitErr[1])

\* the comments with a successful post attempt / with attempts that all failed
postedComments == {requests[i].comment : i \in Where(LAMBDA q : q.comment > 0 /\ q.ok)}
attemptedComments == {requests[i].comment : i \in Where(LAMBDA q : q.comment > 0)}

\* C9: when postReview returns, posted + failed is the number of comments,
\* posted counts the comments with a successful attempt (inline, not-found
\* note or fallback), failed counts those whose attempts all failed, and
\* neither counter is negative at any point of the loop.
C9_CountersPartitionComments ==
    /\ posted >= 0
    /\ failed >= 0
    /\ postReviewReturned =>
          /\ posted + failed = Len(comments)
          /\ posted = Cardinality(postedComments)
          /\ failed = Cardinality((1..Len(comments)) \ postedComments)
          /\ outcome # Undefined => outcome[1].posted = posted /\ outcome[1].failed = failed

\* [ok1, failing1]: failing1's inline post fails, its fallback succeeds
C9_Witness ==
    /\ postReviewReturned
    /\ pc = "done"
    /\ Len(comments) = 2
    /\ Len(requests) = 4
    /\ requests[1].kind = "inline" /\ requests[1].ok
    /\ requests[2].kind = "inline" /\ ~requests[2].ok
    /\ requests[3].kind = "fallback" /\ requests[3].ok
    /\ outcome[1].posted = 2
    /\ outcome[1].failed = 0

\* C10: postReview attempts the summary note exactly once per call, after
\* every comment's attempts are over, also when every comment failed and
\* when there is no comment (then it returns 0 posted, 0 failed).
C10_SummaryOnceAfterComments ==
    /\ (review # Undefined /\ pc \in {"postComment", "fallback", "summary"}) =>
          Where(isSummary) = {}
    /\ review = Undefined => Where(isSummary) = {}
    /\ postReviewOver =>
          /\ Cardinality(Where(isSummary)) = 1
          /\ \A i \in Where(isSummary) :
                /\ requests[i].op = "note"
                /\ attemptedComments = 1..Len(comments)
                /\ \A j \in Where(LAMBDA q : q.comment > 0) : j < i
    /\ (postReviewReturned /\ Len(comments) = 0 /\ outcome # Undefined) =>
          outcome[1].posted = 0 /\ outcome[1].failed = 0

C10_Witness ==
    /\ postReviewReturned
    /\ pc = "done"
    /\ Len(comments) = 2
    /\ postedComments = {}
    /\ outcome[1].failed = 2
    /\ requests[Len(requests)].kind = "summary"

\* ------------------------------------------------------------------------
\* Claims on the run's outcomes and step order
\* ------------------------------------------------------------------------
isCommentPost(q) == q.kind \in {"inline", "notfound", "fallback"}
isNoChangesNote(q) == q.kind = "nochanges"

runOver == pc \in {"finally", "done"}
reportedFailed == outcome # Undefined /\ outcome[1].error # <<>>

\* the checkout (mkdtemp, git clone) has begun / has failed
checkoutStarted == created # {} \/ err = Some(MkdtempError)
checkoutFailed ==
    \/ err = Some(MkdtempError)
    \/ gitErr # Undefined /\ err = Some(CloneError(gitErr[1]))

\* C11: a failure of a posting call made after the assistant answered
\* (inline discussion, fallback note, trailing summary note) or of the
\* no-changes note never makes the run report a failure nor post a
\* failure note: only fetch, checkout and assistant errors do.
C11_PostingFailuresNotFatal ==
    (runOver /\ (review # Undefined \/ Where(isNoChangesNote) # {})) =>
        /\ ~reportedFailed
        /\ Where(isFailureNote) = {}

\* C12 as stated: in both entry points the diff fetch is complete before
\* the checkout starts, the checkout is complete before the assistant is
\* invoked, and the assistant has answered before anything of the review
\* is posted.
C12_FetchThenCheckoutThenReview ==
    /\ checkoutStarted => diffVersion # Undefined
    /\ (pc = "review" \/ assistantCalls > 0) => clone # Undefined
    /\ (Where(isCommentPost) # {} \/ Where(isSummary) # {}) => review # Undefined

\* C12 as amended: the handler fetches the diff before the checkout starts,
\* main completes the checkout before the diff fetch starts; in both, the
\* fetch and the checkout are complete before the assistant is invoked and
\* the assistant has answered before anything of the review is posted.
C12_StepsInOrder ==
    /\ (/\ variant = "lambda"
        /\ (pc \in {"mkdtemp", "gitClone", "cloneRm"} \/ checkoutStarted))
          => diffVersion # Undefined
    /\ (/\ variant = "ci"
        /\ (pc \in {"getVersions", "getDetail", "noChanges"} \/ diffVersion # Undefined))
          => clone # Undefined
    /\ (pc = "review" \/ assistantCalls > 0) =>
          /\ clone # Undefined
          /\ diffVersion # Undefined
          /\ gitErr = Undefined
    /\ (Where(isCommentPost) # {} \/ Where(isSummary) # {}) =>
          /\ review # Undefined
          /\ assistantCalls = 1
    /\ pc \in {"postComment", "fallback", "summary"} => review # Undefined

C12_Witness ==
    /\ variant = "ci"
    /\ pc = "done"
    /\ clone # Undefined
    /\ diffVersion # Undefined
    /\ assistantCalls = 1
    /\ Where(isCommentPost) # {}
    /\ Where(isSummary) # {}

\* C13: when the fetched diff version has no file, the run posts exactly
\* one note, the no-changes note, never invokes the assistant and ends
\* with a success outcome.
C13_EmptyDiffOneNote ==
    (pc = "done" /\ diffVersion # Undefined /\ Len(diffVersion[1].diffs) = 0) =>
        /\ Len(requests) = 1
        /\ isNoChangesNote(requests[1])
        /\ assistantCalls = 0
        /\ ~reportedFailed

\* C14: when the checkout fails, the run attempts exactly one MR note,
\* whose body contains the checkout error's text; the assistant is never
\* invoked, no comment or summary is posted, and the run reports a failure.
C14_CheckoutFailure ==
    checkoutFailed =>
        /\ assistantCalls = 0
        /\ review = Undefined
        /\ Where(isCommentPost) = {} /\ Where(isSummary) = {}
        /\ runOver =>
              /\ Len(requests) = 1
              /\ requests[1].op = "note"
              /\ isFailureNote(requests[1])
              /\ requests[1].body.text = err[1]
              /\ (gitErr # Undefined =>
                    requests[1].body.text = <<"Failed to clone repository: ">> \o gitErr[1])
              /\ reportedFailed
              /\ outcome[1].statusCode = (IF variant = "lambda" THEN 500 ELSE -1)
              /\ outcome[1].exitCode = (IF variant = "ci" THEN 1 ELSE -1)

C14_Witness ==
    /\ pc = "done"
    /\ variant = "lambda"
    /\ gitErr # Undefined
    /\ gitErr[1][Len(gitErr[1])] = "fatal: Authentication failed"
    /\ checkoutFailed
    /\ Len(requests) = 1
    /\ requests[1].ok
    /\ requests[1].body.text = CloneError(gitErr[1])
    /\ reportedFailed


\* ------------------------------------------------------------------------
\* Claims on parseReviewResponse
\* ------------------------------------------------------------------------
result == parsed[1]
decoded == JSONparse(cleanedOf(content))

isTyped(v, type) == "t" \in DOMAIN v /\ v.t = type

wellTyped(c) ==
    /\ isTyped(c.file, "string")
    /\ isTyped(c.line, "number")
    /\ isTyped(c.body, "string")
    /\ c.severity \in Severities

\* C15: parseReviewResponse never throws: for every input text it returns a
\* result whose summary is a string and whose comments is a sequence of
\* elements with a string file, a numeric line, a string body and a
\* severity among info, warning and critical.
C15_AlwaysWellTyped ==
    parsed # Undefined =>
        /\ isTyped(result.summary, "string")
        /\ \A i \in DOMAIN result.comments : wellTyped(result.comments[i])

C15_Witness ==
    /\ parsed # Undefined
    /\ content = <<DOC>>
    /\ doc = JObj([summary |-> Str("ok"),
                   comments |-> JArr(<<ElNumber, ElOddSeverity>>)])
    /\ Len(result.comments) = 1
    /\ result.comments[1].severity = Str("info")

LanguageTags == {<<>>, <<"json">>, <<"text">>}

\* C wrapped in one fenced code block: fence, tag, line break, C, line
\* break, fence
wrapped(c, tag) == <<FENCE>> \o tag \o <<NL>> \o c \o <<NL, FENCE>>

\* C16: for every content and every language tag (or none), parsing the
\* content wrapped in a single fenced code block gives the same result as
\* parsing the content unwrapped.
C16_FenceIsTransparent ==
    parsed # Undefined =>
        \A tag \in LanguageTags : parseReviewResponse(wrapped(content, tag)) = result

\* the input text without its enclosing code fence
unfenced(c) == IF startsWithFence(trim(c)) THEN cleanedOf(c) ELSE c

hasStringSummary(v) == typeOf(prop(v, "summary")) = "string"

\* C17: whenever decoding fails or the decoded value has no string summary,
\* the result has no comment and its summary is the input text with its
\* enclosing code fence removed, for fenced and unfenced inputs alike.
C17_FallbackIsUnfencedText ==
    (parsed # Undefined /\ (decoded = Undefined \/ ~hasStringSummary(decoded[1]))) =>
        /\ result.comments = <<>>
        /\ result.summary = JStr(unfenced(content))

\* a candidate with a string file, a numeric line and a string body
wellFormed(c) ==
    /\ typeOf(prop(c, "file")) = "string"
    /\ typeOf(prop(c, "line")) = "number"
    /\ typeOf(prop(c, "body")) = "string"

severityOrInfo(c) ==
    IF prop(c, "severity") # Undefined /\ prop(c, "severity")[1] \in Severities
    THEN prop(c, "severity")[1]
    ELSE Str("info")

expectedComments(v) ==
    LET field == prop(v, "comments")
        candidates == IF typeOf(field) = "array" THEN field[1].items ELSE <<>>
        kept == SelectSeq(candidates, wellFormed)
    IN  [i \in DOMAIN kept |->
            [file |-> prop(kept[i], "file")[1],
             line |-> prop(kept[i], "line")[1],
             body |-> prop(kept[i], "body")[1],
             severity |-> severityOrInfo(kept[i])]]

\* C18: whenever decoding yields an object with a string summary, the
\* result keeps that summary and its comments are exactly the candidates
\* with a string file, a numeric line and a string body, in order, with the
\* severity kept when it is info, warning or critical and "info" otherwise;
\* null, non-object and non-numeric-line candidates are dropped, and a
\* comments field that is not an array gives the empty list.
C18_KeepsWellFormedComments ==
    (parsed # Undefined /\ decoded # Undefined /\ hasStringSummary(decoded[1])) =>
        /\ result.summary = prop(decoded[1], "summary")[1]
        /\ result.comments = expectedComments(decoded[1])

\* ------------------------------------------------------------------------
\* Claims on the attempts postReview makes per comment
\* ------------------------------------------------------------------------
\* the comment's file is neither the new nor the old path of a diff file
notInDiff(c) ==
    \A i \in DOMAIN diffVersion[1].diffs :
        /\ diffVersion[1].diffs[i].new_path # c.file
        /\ diffVersion[1].diffs[i].old_path # c.file

attemptsOf(i, op) == Where(LAMBDA q : q.comment = i /\ q.op = op)

inLoop == review # Undefined /\ diffVersion # Undefined

\* C19: for a comment whose file is neither the new nor the old path of a
\* file of the diff version, postReview makes no inline-discussion attempt
\* and posts it as a general note whose body starts with file:line; when
\* that note is accepted the comment is counted in posted and the loop
\* goes on with the next comment.
C19_NotFoundBecomesNote ==
    /\ [](inLoop =>
            \A i \in DOMAIN comments : notInDiff(comments[i]) =>
                /\ attemptsOf(i, "discussion") = {}
                /\ (idx > i => attemptsOf(i, "note") # {})
                /\ \A k \in attemptsOf(i, "note") :
                       /\ requests[k].body.tag = "file:line"
                       /\ requests[k].body.file = comments[i].file
                       /\ requests[k].body.line = comments[i].line
                       /\ requests[k].body.text = <<comments[i].body>>
                       /\ requests[k].position = Undefined)
    /\ [][(/\ pc = "postComment"
            /\ notInDiff(comments[idx])
            /\ Len(requests') = Len(requests) + 1
            /\ requests'[Len(requests')].ok)
           => (/\ posted' = posted + 1
               /\ failed' = failed
               /\ idx' = idx + 1
               /\ pc' = IF idx + 1 > Len(comments) THEN "summary" ELSE "postComment")]_vars

C19_Witness ==
    /\ pc = "postComment"
    /\ idx = 2
    /\ posted = 1
    /\ notInDiff(comments[1])
    /\ Len(requests) = 1
    /\ requests[1].kind = "notfound"
    /\ requests[1].ok

\* C20: per comment there is at most one inline attempt and at most one
\* general-note attempt: the only repeated call is the single note that
\* follows a failed inline discussion post, a comment whose file is not in
\* the diff gets exactly one note attempt even when that post fails, and a
\* failed fallback is not attempted again.
C20_OneAttemptOfEachKind ==
    inLoop =>
        \A i \in DOMAIN comments :
            /\ Cardinality(attemptsOf(i, "discussion")) <= 1
            /\ Cardinality(attemptsOf(i, "note")) <= 1


\* the loop of postReview is over
loopOver == review # Undefined /\ pc \notin {"review", "postComment", "fallback"}

anyAttempt(i) == Where(LAMBDA q : q.comment = i) # {}

\* C21: postReview processes the comments independently: every comment of
\* the list gets at least one post attempt, whatever failures (inline,
\* not-found note or fallback) occurred for the comments before it.
C21_EveryCommentAttempted ==
    /\ inLoop => \A i \in DOMAIN comments : i < idx => anyAttempt(i)
    /\ loopOver => \A i \in DOMAIN comments : anyAttempt(i)

C21_Witness ==
    /\ pc = "summary"
    /\ Len(comments) = 2
    /\ failed = 1
    /\ Cardinality(Where(LAMBDA q : q.comment = 1 /\ ~q.ok)) = 2
    /\ Where(LAMBDA q : q.comment = 1 /\ q.ok) = {}
    /\ anyAttempt(2)


\* ------------------------------------------------------------------------
\* Claims on the webhook deliveries
\* ------------------------------------------------------------------------
\* a secret is configured: the variable is set and not empty
secretConfigured == webhookSecret # Undefined /\ webhookSecret # Some("")

workOf(d) == {i \in DOMAIN work : work[i].by = d}

\* C22: verifyWebhookToken returns true for every header value, an absent
\* header included, when no secret is configured; when a secret is
\* configured it returns true exactly when the header token is present and
\* equal to the secret.
C22_TokenVerification ==
    \A d \in DOMAIN verified :
        verified[d] # Undefined =>
            verified[d][1] = (IF secretConfigured
                              THEN xGitlabToken # Undefined
                                   /\ xGitlabToken[1] = webhookSecret[1]
                              ELSE TRUE)

C22_Witness ==
    /\ entry = "lambda"
    /\ webhookSecret = Some(Secret)
    /\ xGitlabToken = Undefined
    /\ verified[1] = Some(FALSE)

\* C23: when the token verification fails the request is answered 401
\* before the trigger gate is evaluated and before any work: no run (diff
\* fetch, checkout, assistant, notes) and no pipeline trigger for it.
C23_RejectedBeforeAnyWork ==
    \A d \in DOMAIN verified :
        verified[d] = Some(FALSE) =>
            /\ rpc[d] = "done"
            /\ response[d] = Some([statusCode |-> 401, message |-> "Unauthorized"])
            /\ gateOut[d] = Undefined
            /\ workOf(d) = {}

C23_Witness ==
    /\ rawBody = [shape |-> "payload", p |-> Some(AddsBot)]
    /\ xGitlabToken = Some("other")
    /\ \A d \in Deliveries : verified[d] = Some(FALSE) /\ rpc[d] = "done"
    /\ work = <<>>

\* the delivery's handler has called the trigger gate
gateCalled(d) == rpc[d] \in {"work", "crashed"} \/ gateOut[d] # Undefined

invalidShape(b) ==
    \/ b.shape \in {"null", "empty", "noAttributes"}
    \/ b.shape = "payload" /\ b.p[1].reviewers = Undefined

\* C25: shouldTriggerReview is total: for every decoded payload, invalid
\* shapes included (JSON null, an object without object_attributes or
\* without reviewers), it returns a boolean and never throws, and an
\* invalid shape gives false.
C25_GateIsTotal ==
    \A d \in DOMAIN rpc :
        gateCalled(d) =>
            /\ rpc[d] # "crashed"
            /\ gateOut[d] \in {Some(TRUE), Some(FALSE)}
            /\ invalidShape(parseBody(entry, rawBody)[1]) => gateOut[d] = Some(FALSE)

\* the delivered event passes the gate
qualifies ==
    /\ parseBody(entry, rawBody) # Undefined
    /\ ~gateCall(parseBody(entry, rawBody)[1], Config).threw
    /\ gateCall(parseBody(entry, rawBody)[1], Config).result

\* C30: the gate keeps no state between deliveries: when the identical
\* qualifying event is delivered several times, in sequence or
\* concurrently, the gate returns true for each delivery and each one
\* starts its own run (or pipeline), each run posting its own review.
C30_EveryDeliveryStartsARun ==
    \A d \in DOMAIN rpc :
        /\ (gateCalled(d) /\ qualifies) =>
               /\ gateOut[d] = Some(TRUE)
               /\ rpc[d] \in {"work", "done"}
        /\ (gateOut[d] = Some(TRUE) /\ rpc[d] = "done") =>
               /\ Cardinality(workOf(d)) = 1
               /\ response[d][1].message = "Review posted" =>
                      \A i \in workOf(d) : work[i].note = "summary"

C30_Witness ==
    /\ entry = "lambda"
    /\ rawBody = [shape |-> "payload", p |-> Some(AddsBot)]
    /\ \A d \in Deliveries : gateOut[d] = Some(TRUE) /\ rpc[d] = "done"
    /\ Len(work) = MaxDeliveries
    /\ \A i \in DOMAIN work : work[i].note = "summary"
    /\ work[1].by # work[2].by


\* ------------------------------------------------------------------------
\* Claims on the run's report, positions and diff version
\* ------------------------------------------------------------------------
\* the exit signal the caller sees: main's exit code, the handler's status
exitSignal(o) ==
    IF variant = "ci" THEN o.exitCode
    ELSE IF o.statusCode = 200 THEN 0 ELSE 1

\* C24: when posting completes with failed > 0 the run ends in Done (no
\* failure note, not the Failed outcome) and the failure count reaches the
\* caller as a non-zero exit signal, in the handler and in main alike.
C24_FailedCountIsExitSignal ==
    (runOver /\ postReviewReturned /\ failed > 0) =>
        /\ Where(isFailureNote) = {}
        /\ ~reportedFailed
        /\ outcome[1].failed = failed
        /\ exitSignal(outcome[1]) # 0


\* the payload is a merge request update that is neither draft nor WIP
updateNotDraft(p) ==
    /\ p.object_kind = "merge_request"
    /\ p.object_attributes.action = "update"
    /\ ~p.object_attributes.draft
    /\ ~p.object_attributes.work_in_progress

listsBot(p) ==
    \E i \in DOMAIN OrEmpty(p.reviewers) : OrEmpty(p.reviewers)[i].username = BotUsername

firstMatch(file) ==
    LET diffs == diffVersion[1].diffs
        I == {i \in DOMAIN diffs : diffs[i].new_path = file \/ diffs[i].old_path = file}
    IN  diffs[CHOOSE m \in I : \A k \in I : m <= k]

inlineRequests == Where(LAMBDA q : q.kind = "inline")

sameCommits(p, dv) ==
    /\ p.base_sha = dv.base_commit_sha
    /\ p.head_sha = dv.head_commit_sha
    /\ p.start_sha = dv.start_commit_sha

\* C27: for a comment whose file matches a diff file, the position sent
\* with the inline discussion carries the diff version's base, head and
\* start commit identifiers, the old and new path of the first diff file
\* (in list order) whose new or old path is the comment's file, the
\* comment's line as new_line, and no old_line.
C27_PositionOfInlineComment ==
    \A k \in inlineRequests :
        LET c == comments[requests[k].comment]
            p == requests[k].position[1]
        IN  /\ ~notInDiff(c)
            /\ requests[k].op = "discussion"
            /\ sameCommits(p, diffVersion[1])
            /\ p.old_path = firstMatch(c.file).old_path
            /\ p.new_path = firstMatch(c.file).new_path
            /\ p.new_line = c.line
            /\ "old_line" \notin DOMAIN p

C27_Witness ==
    /\ inlineRequests # {}
    /\ \E k \in inlineRequests :
          /\ comments[requests[k].comment].file = "old.ts"
          /\ requests[k].position[1].new_path = "new.ts"
          /\ requests[k].position[1].new_line = 5
          /\ requests[k].ok

getsOf(op) == {i \in DOMAIN gets : gets[i].op = op}

\* C28: within one run every inline discussion carries the three commit
\* identifiers of the single diff version the run fetched: the version is
\* fetched once, is not refetched or modified afterwards, whatever is
\* pushed meanwhile, and is the version handed to the assistant.
C28_OneDiffVersionPerRun ==
    /\ [](/\ Cardinality(getsOf("versions")) <= 1
          /\ Cardinality(getsOf("detail")) <= 1
          /\ \A k \in inlineRequests : sameCommits(requests[k].position[1], diffVersion[1])
          /\ reviewOpts # Undefined => reviewOpts[1].diffVersion = diffVersion[1])
    /\ [][diffVersion # Undefined => diffVersion' = diffVersion]_vars

C28_Witness ==
    /\ serverVersions = <<VersionThree, VersionTwo, VersionEmpty>>
    /\ diffVersion = Some(VersionTwo)
    /\ reviewOpts # Undefined
    /\ \E k \in inlineRequests :
          /\ requests[k].ok
          /\ requests[k].position[1].head_sha = "head2"

listedIds == {versions[1][i].id : i \in DOMAIN versions[1]}

\* C29: getLatestDiffs requests the detail of exactly one version, the
\* most recent by creation order among those listed; when the listing is
\* empty it raises an error without requesting a detail, and the run
\* fails: failure note attempted, Failed reported, no assistant invocation
\* and, in the handler, no checkout.
C29_LatestVersionOnly ==
    /\ Cardinality(getsOf("detail")) <= 1
    /\ \A i \in getsOf("detail") :
          /\ versions # Undefined
          /\ gets[i].id \in listedIds
          /\ \A id \in listedIds : id <= gets[i].id
    /\ diffVersion # Undefined => getsOf("detail") # {}
    /\ versions = Some(<<>>) =>
          /\ getsOf("detail") = {}
          /\ err = Some(NoVersionsError)
          /\ assistantCalls = 0
          /\ variant = "lambda" => created = {}
          /\ runOver =>
                /\ reportedFailed
                /\ Len(requests) = 1
                /\ isFailureNote(requests[1])
                /\ requests[1].body.text = NoVersionsError

C29_Witness ==
    /\ versions = Some(<<VersionTwo, VersionEmpty>>)
    /\ gets = <<[op |-> "versions", id |-> 0], [op |-> "detail", id |-> 2]>>
    /\ diffVersion = Some(VersionTwo)

\* ------------------------------------------------------------------------
\* RunsSpec: several review runs on one host, each through cloneRepository,
\* reviewMergeRequest and the finally block; the steps of different runs
\* interleave at every await
\* ------------------------------------------------------------------------
MaxRuns == 2

Runs == 1..MaxRuns

\* the random suffixes mkdtemp may draw for the prefix "gitlab-review-"
TmpNames == 1..MaxRuns

NoOwner == 0

\* any name, whether or not a directory has it (mutant)
unusedNames_Any(onDisk) ==
    TmpNames

\* mkdtemp creates a directory under a name that did not exist
unusedNames(onDisk) ==
    {n \in TmpNames : onDisk[n] = NoOwner}

RunsInit ==
    /\ GateIdle
    /\ MRIdle
    /\ ParseIdle
    /\ PromptIdle
    /\ DeliveryIdle
    /\ RunIdle
    /\ runPc = [r \in Runs |-> "mkdtemp"]
    /\ runDir = [r \in Runs |-> Undefined]
    /\ runClone = [r \in Runs |-> Undefined]
    /\ disk = [n \in TmpNames |-> NoOwner]
    /\ removals = {}
    /\ invocations = {}

\* rm(d, {recursive, force}) issued by run r
Remove(r, d, ok) ==
    /\ removals' = removals \cup {[by |-> r, dir |-> d, owner |-> disk[d], ok |-> ok]}
    /\ disk' = IF ok THEN [disk EXCEPT ![d] = NoOwner] ELSE disk

RunMkdtemp(r) ==
    /\ runPc[r] = "mkdtemp"
    /\ \/ \E n \in unusedNames(disk) :
             /\ disk' = [disk EXCEPT ![n] = r]
             /\ runDir' = [runDir EXCEPT ![r] = Some(n)]
             /\ runPc' = [runPc EXCEPT ![r] = "gitClone"]
       \/ /\ runPc' = [runPc EXCEPT ![r] = "catch"]
          /\ UNCHANGED <<disk, runDir>>
    /\ UNCHANGED <<gateVars, mrVars, parseVars, promptVars, reqVars, runVars,
                   runClone, removals, invocations>>

RunGitClone(r) ==
    /\ runPc[r] = "gitClone"
    /\ \/ /\ runClone' = [runClone EXCEPT ![r] = Some([dir |-> runDir[r][1]])]
          /\ runPc' = [runPc EXCEPT ![r] = "review"]
       \/ /\ runPc' = [runPc EXCEPT ![r] = "cloneRm"]
          /\ UNCHANGED runClone
    /\ UNCHANGED <<gateVars, mrVars, parseVars, promptVars, reqVars, runVars,
                   runDir, disk, removals, invocations>>

RunCloneRm(r) ==
    /\ runPc[r] = "cloneRm"
    /\ \E ok \in BOOLEAN : Remove(r, runDir[r][1], ok)
    /\ runPc' = [runPc EXCEPT ![r] = "catch"]
    /\ UNCHANGED <<gateVars, mrVars, parseVars, promptVars, reqVars, runVars,
                   runDir, runClone, invocations>>

\* reviewMergeRequest is called with repoDir: clone.dir
RunInvoke(r) ==
    /\ runPc[r] = "review"
    /\ invocations' = invocations \cup
           {[by |-> r, repoDir |-> runClone[r][1].dir,
             owner |-> disk[runClone[r][1].dir]]}
    /\ runPc' = [runPc EXCEPT ![r] = "reviewing"]
    /\ UNCHANGED <<gateVars, mrVars, parseVars, promptVars, reqVars, runVars,
                   runDir, runClone, disk, removals>>

\* the assistant works on the directory until reviewMergeRequest settles
RunReviewSettles(r) ==
    /\ runPc[r] = "reviewing"
    /\ \E ok \in BOOLEAN :
           runPc' = [runPc EXCEPT ![r] = IF ok THEN "postReview" ELSE "catch"]
    /\ UNCHANGED <<gateVars, mrVars, parseVars, promptVars, reqVars, runVars,
                   runDir, runClone, disk, removals, invocations>>

\* postReview, or the catch block's failure note: neither touches the disk
RunPosts(r) ==
    /\ runPc[r] \in {"postReview", "catch"}
    /\ runPc' = [runPc EXCEPT ![r] = "finally"]
    /\ UNCHANGED <<gateVars, mrVars, parseVars, promptVars, reqVars, runVars,
                   runDir, runClone, disk, removals, invocations>>

RunCleanup(r) ==
    /\ runPc[r] = "finally"
    /\ IF runClone[r] # Undefined
       THEN \E ok \in BOOLEAN : Remove(r, runClone[r][1].dir, ok)
       ELSE UNCHANGED <<disk, removals>>
    /\ runPc' = [runPc EXCEPT ![r] = "done"]
    /\ UNCHANGED <<gateVars, mrVars, parseVars, promptVars, reqVars, runVars,
                   runDir, runClone, invocations>>

RunsNext ==
    \E r \in Runs :
        \/ RunMkdtemp(r)
        \/ RunGitClone(r)
        \/ RunCloneRm(r)
        \/ RunInvoke(r)
        \/ RunReviewSettles(r)
        \/ RunPosts(r)
        \/ RunCleanup(r)

RunsSpec == RunsInit /\ [][RunsNext]_vars

\* ------------------------------------------------------------------------
\* C31
\* ------------------------------------------------------------------------
\* run r has a working directory that it has not removed
holdsDirectory(r) ==
    /\ runDir[r] # Undefined
    /\ ~ \E x \in removals : x.by = r /\ x.ok

\* C31: however the steps of concurrent runs interleave, two runs never hold
\* the same working directory, every removal a run issues hits the directory
\* that this run created, every assistant invocation is given the directory
\* its own run created, and that directory stays the run's own on disk for as
\* long as the assistant works on it.
C31_RunsNeverShareADirectory ==
    /\ \A r1, r2 \in Runs :
           (r1 # r2 /\ holdsDirectory(r1) /\ holdsDirectory(r2))
               => runDir[r1] # runDir[r2]
    /\ \A x \in removals : x.owner = x.by /\ runDir[x.by] = Some(x.dir)
    /\ \A i \in invocations : i.owner = i.by /\ runDir[i.by] = Some(i.repoDir)
    /\ \A r \in Runs :
           runPc[r] = "reviewing" => disk[runClone[r][1].dir] = r

\* two runs' assistants work at once, each on its own directory, and later
\* one run has cleaned up while the other's assistant is still working
C31_Witness ==
    \E r1, r2 \in Runs :
        /\ r1 # r2
        /\ runPc[r1] = "reviewing"
        /\ runPc[r2] = "done"
        /\ \E x \in removals : x.by = r2 /\ x.ok
        /\ \E i \in invocations : i.by = r2

\* ------------------------------------------------------------------------
\* C32, C38: the entry points around the gate
\* ------------------------------------------------------------------------
\* C32: when the trigger gate returns false nothing is done for the request:
\* no run (diff fetch, checkout, assistant invocation, notes, discussions)
\* and no pipeline trigger, and the caller is answered with the success
\* status 200.
C32_IgnoredEventIsNoOp ==
    \A d \in DOMAIN gateOut :
        gateOut[d] = Some(FALSE) =>
            /\ rpc[d] = "done"
            /\ workOf(d) = {}
            /\ response[d] # Undefined
            /\ response[d][1].statusCode = 200

\* the opening of an MR that lists the bot is delivered and ignored, while
\* nothing was started for any delivery
C32_Witness ==
    /\ rawBody = [shape |-> "payload", p |-> Some(OpensMR)]
    /\ \A d \in Deliveries :
           gateOut[d] = Some(FALSE) /\ response[d] # Undefined /\ rpc[d] = "done"
    /\ work = <<>>

\* the pipeline triggers issued for delivery d
triggersOf(d) == {i \in workOf(d) : work[i].call = "triggerReviewPipeline"}

\* C38: the receiver calls the pipeline trigger at most once per request, and
\* only for a POST whose token verified, whose body parsed and whose payload
\* passed the gate; when the call fails the request is answered 502, nothing
\* is posted to the MR and the call is not repeated.
C38_TriggerOncePerGatedPost ==
    \A d \in DOMAIN rpc :
        /\ Cardinality(triggersOf(d)) <= 1
        /\ triggersOf(d) # {} =>
               /\ entry = "server"
               /\ httpRequest.method = "POST"
               /\ verified[d] = Some(TRUE)
               /\ parseBody(entry, rawBody) # Undefined
               /\ gateOut[d] = Some(TRUE)
        /\ \A i \in triggersOf(d) :
               ~work[i].ok =>
                   /\ rpc[d] = "done"
                   /\ response[d] = Some([statusCode |-> 502,
                                          message |-> "Failed to trigger review pipeline"])
                   /\ work[i].note = "none"
                   /\ workOf(d) = {i}

\* one delivery's trigger call failed and was answered 502, another's succeeded
C38_Witness ==
    /\ entry = "server"
    /\ \E d1, d2 \in Deliveries :
           /\ response[d1] # Undefined /\ response[d1][1].statusCode = 502
           /\ response[d2] # Undefined /\ response[d2][1].statusCode = 200
           /\ \E i \in triggersOf(d1) : ~work[i].ok
           /\ \E i \in triggersOf(d2) : work[i].ok
    /\ Len(work) = 2

\* ------------------------------------------------------------------------
\* PromptSpec: buildDiffPrompt applied to one list of diff files
\* ------------------------------------------------------------------------
MaxFiles == 2

FilePaths == {"a.ts", "b.ts", "c.ts"}

\* the unified diff text of each file
diffText(path) ==
    CASE path = "a.ts" -> "@@ a"
      [] path = "b.ts" -> "@@ b"
      [] OTHER -> "@@ c"

\* DiffFile records; a renamed file comes from prev.ts
DiffFiles ==
    {[old_path |-> IF kind = "renamed" THEN "prev.ts" ELSE path,
      new_path |-> path,
      diff |-> diffText(path),
      new_file |-> kind = "new",
      renamed_file |-> kind = "renamed",
      deleted_file |-> kind = "deleted",
      too_large |-> tooLarge,
      collapsed |-> isCollapsed] :
        path \in FilePaths, kind \in {"modified", "new", "renamed", "deleted"},
        tooLarge \in BOOLEAN, isCollapsed \in BOOLEAN}

\* a diff version lists each changed file once
DiffLists ==
    {l \in SeqsUpTo(DiffFiles, MaxFiles) :
        \A i, j \in DOMAIN l : i # j => l[i].new_path # l[j].new_path}

\* the first filter keeps whatever is not too large (mutant)
includedInDiff_IgnoreCollapsed(f) == ~f.too_large

\* .filter((d) => !d.too_large && !d.collapsed)
includedInDiff(f) == ~f.too_large /\ ~f.collapsed

\* .filter((d) => d.too_large || d.collapsed)
skippedFile(f) == f.too_large \/ f.collapsed

statusOf(f) ==
    IF f.new_file THEN <<"(new file)">>
    ELSE IF f.deleted_file THEN <<"(deleted)">>
    ELSE IF f.renamed_file THEN <<"(renamed from ", f.old_path, ")">>
    ELSE <<>>

\* one "### path status" heading with the fenced diff under it
fileSection(f) ==
    [heading |-> f.new_path, status |-> statusOf(f), diff |-> f.diff]

RECURSIVE mapSeq(_, _)
mapSeq(Op(_), seq) ==
    IF seq = <<>> THEN <<>> ELSE <<Op(Head(seq))>> \o mapSeq(Op, Tail(seq))

newPathOf(f) == f.new_path

\* The parts of the prompt that depend on the diff list: the count in the
\* "Changed Files" heading, the file sections, and the note under them.
buildDiffPrompt(diffList) ==
    LET filesDiff == mapSeq(fileSection, SelectSeq(diffList, includedInDiff))
        skipped == SelectSeq(diffList, skippedFile)
        skippedNote ==
            IF Len(skipped) > 0
            THEN Some([count |-> Len(skipped),
                       text |-> " file(s) were too large to include in the diff.",
                       paths |-> mapSeq(newPathOf, skipped)])
            ELSE Undefined
    IN  [changedFiles |-> Len(diffList), filesDiff |-> filesDiff,
         skippedNote |-> skippedNote]

PromptInit ==
    /\ GateIdle
    /\ MRIdle
    /\ ParseIdle
    /\ promptDiffs \in DiffLists
    /\ prompt = Undefined
    /\ PoolIdle
    /\ DeliveryIdle
    /\ RunIdle

\* reviewMergeRequest builds the prompt from diffVersion.diffs
BuildPrompt ==
    /\ prompt = Undefined
    /\ prompt' = Some(buildDiffPrompt(promptDiffs))
    /\ UNCHANGED <<promptDiffs, gateVars, mrVars, parseVars, poolVars, reqVars, runVars>>

PromptNext == BuildPrompt

PromptSpec == PromptInit /\ [][PromptNext]_vars

\* ------------------------------------------------------------------------
\* C33
\* ------------------------------------------------------------------------
\* the sections of the built prompt that are headed by the path
sectionsOf(path) ==
    {k \in DOMAIN prompt[1].filesDiff : prompt[1].filesDiff[k].heading = path}

\* the path is listed in the prompt's note on omitted files
listedAsOmitted(path) ==
    /\ prompt[1].skippedNote # Undefined
    /\ includes(prompt[1].skippedNote[1].paths, path)

\* C33: in the built prompt every diff file is in exactly one of two groups:
\* a file flagged neither too_large nor collapsed has one section carrying
\* its diff text and is not in the note; a file flagged too_large or
\* collapsed has no section, so none of its diff text, and is listed by its
\* new path in the note on files left out of the diff; the stated count of
\* changed files is the length of the diff list.
C33_EveryFileInOneGroup ==
    prompt # Undefined =>
        /\ \A k \in DOMAIN promptDiffs :
               LET f == promptDiffs[k]
               IN  IF f.too_large \/ f.collapsed
                   THEN /\ sectionsOf(f.new_path) = {}
                        /\ \A j \in DOMAIN prompt[1].filesDiff :
                               prompt[1].filesDiff[j].diff # f.diff
                        /\ listedAsOmitted(f.new_path)
                   ELSE /\ Cardinality(sectionsOf(f.new_path)) = 1
                        /\ \A j \in sectionsOf(f.new_path) :
                               prompt[1].filesDiff[j].diff = f.diff
                        /\ ~listedAsOmitted(f.new_path)
        /\ prompt[1].changedFiles = Len(promptDiffs)
        /\ prompt[1].skippedNote # Undefined =>
               /\ prompt[1].skippedNote[1].count = Len(prompt[1].skippedNote[1].paths)
               /\ Len(prompt[1].filesDiff) + prompt[1].skippedNote[1].count
                      = Len(promptDiffs)

\* a list of one plain file and one collapsed file: one section, one path in
\* the note, a count of two
C33_Witness ==
    /\ prompt # Undefined
    /\ Len(promptDiffs) = 2
    /\ ~promptDiffs[1].too_large /\ ~promptDiffs[1].collapsed
    /\ ~promptDiffs[2].too_large /\ promptDiffs[2].collapsed
    /\ Len(prompt[1].filesDiff) = 1
    /\ prompt[1].skippedNote # Undefined
    /\ prompt[1].changedFiles = 2

\* ------------------------------------------------------------------------
\* C34
\* ------------------------------------------------------------------------
\* C34: no request that posts to the MR, the failure note built from a
\* checkout error included, carries the GitLab access token in its body, so
\* the bodies posted do not depend on the token's value.
C34_NoTokenInPostedBodies ==
    \A k \in DOMAIN requests :
        ~includes(requests[k].body.text, Config.gitlabToken)

\* ------------------------------------------------------------------------
\* C35
\* ------------------------------------------------------------------------
\* the inline discussions the run has posted
postedInline == {i \in inlineRequests : requests[i].ok}

\* C35: the number that the summary note states as "N inline comment(s)
\* posted" is the number of comments postReview posted as inline discussions
\* in that run; comments that became a general note or failed do not count.
C35_SummaryStatesInlinePosted ==
    \A k \in Where(isSummary) :
        requests[k].body.n = Cardinality(postedInline)

\* ------------------------------------------------------------------------
\* C36, C37
\* ------------------------------------------------------------------------
\* the number of comments the parser returned to the run
parsedCount == IF review = Undefined THEN 0 ELSE Len(comments)

\* C36: when every collaborator call returns or fails, the run ends, and at
\* every point it has issued at most 2n + 2 posting requests for its n parsed
\* comments (at most two per comment, one summary note, one failure note),
\* made at most one checkout and invoked the assistant at most once.
C36_RunEndsWithinBudget ==
    /\ <>(pc = "done")
    /\ [](/\ Len(requests) <= 2 * parsedCount + 2
          /\ \A i \in 1..parsedCount :
                 Cardinality(Where(LAMBDA q : q.comment = i)) <= 2
          /\ Cardinality(Where(isSummary)) <= 1
          /\ Cardinality(Where(isFailureNote)) <= 1
          /\ Cardinality(created) <= 1
          /\ assistantCalls <= 1)

\* a run that spent its whole budget: both attempts for each of two comments,
\* the summary note, whose post failed, and the failure note
C36_Witness ==
    /\ pc = "done"
    /\ parsedCount = 2
    /\ Len(requests) = 2 * parsedCount + 2
    /\ Cardinality(created) = 1
    /\ assistantCalls = 1

\* every comment of the review has had its attempts
commentsAttempted == \A i \in 1..parsedCount : anyAttempt(i)

\* C37: the checkout's cleanup is the last step of the run. It is invoked
\* from the finally block in the step that ends the run, after the assistant
\* invocation is over and after the posting attempts, the failure note
\* included; once it is invoked nothing is posted and the assistant is not
\* invoked; and the acquired directory stays on disk until then, so it is
\* never removed while the assistant works on it.
C37_CleanupIsLastStep ==
    /\ [](cleanupCalls > 0 =>
             /\ pc = "done"
             /\ err # Undefined => Where(isFailureNote) # {}
             /\ (err = Undefined /\ review # Undefined) =>
                    commentsAttempted /\ Where(isSummary) # {})
    /\ []((clone # Undefined /\ cleanupCalls = 0) => clone[1].dir \in fs)
    /\ [][cleanupCalls' # cleanupCalls =>
             /\ pc = "finally" /\ pc' = "done"
             /\ requests' = requests
             /\ assistantCalls' = assistantCalls]_vars
    /\ [][cleanupCalls > 0 =>
             /\ requests' = requests
             /\ assistantCalls' = assistantCalls
             /\ rmLog' = rmLog]_vars

\* a run whose summary note failed: comment posts, then the failure note,
\* then the cleanup, which removed the directory
C37_Witness ==
    /\ pc = "done"
    /\ cleanupCalls = 1
    /\ assistantCalls = 1
    /\ Where(isCommentPost) # {}
    /\ Where(isFailureNote) # {}
    /\ Len(rmLog) = 1
    /\ rmLog[1].ok
    /\ fs = {}
====
